---- MODULE Spec2Model ----
(***************************************************************************)
(* Variable bookkeeping of bioptim: Mapping / NodeMappingList              *)
(* (misc/mapping.py) and OptimizationVector                                *)
(* (optimization/optimization_vector.py).                                  *)
(*                                                                         *)
(* Python lists are modelled as sequences; the element at Python index i   *)
(* of a list l is At(l, i).  A casadi symbol created by cx.sym(name, 1, w) *)
(* is the sequence of its w scalar entries <<kind, phase, k, liberty, c>>; *)
(* two entries are the same symbol iff the tuples are equal.  A casadi     *)
(* matrix is the sequence of its columns.                                  *)
(***************************************************************************)
EXTENDS Integers, Sequences, FiniteSets, TLC

\* ------------------------------------------------------------------ bounds
MaxPhases == 2
MaxNs == 2
MaxRows == 2
MaxDegree == 1
MaxParamAdds == 2
MaxParamSize == 2
MaxDataBase == 1
MaxMapLen == 3
MaxSrcLen == 2
MaxCols == 2
MaxAdds == 2
MaxTargetPhases == 3
MaxFillAdds == 3

\* ----------------------------------------------------------------- helpers
At(l, i) == l[i + 1]

RangeList(a, b) == [i \in 1..(IF b > a THEN b - a ELSE 0) |-> a + i - 1]

InList(x, l) == \E i \in 1..Len(l) : l[i] = x

RECURSIVE SumSeq(_)
SumSeq(s) == IF Len(s) = 0 THEN 0 ELSE Head(s) + SumSeq(Tail(s))

RECURSIVE Flatten(_)
Flatten(ss) == IF Len(ss) = 0 THEN << >> ELSE Head(ss) \o Flatten(Tail(ss))

\* Python slice l[a:b]: a negative bound counts from the end, both are clipped
SliceBound(i, n) == IF i < 0 THEN (IF i + n < 0 THEN 0 ELSE i + n) ELSE IF i > n THEN n ELSE i

Slice(l, a, b) ==
    LET lo == SliceBound(a, Len(l))
        hi == SliceBound(b, Len(l))
    IN  IF lo >= hi THEN << >> ELSE [i \in 1..(hi - lo) |-> l[lo + i]]

\* nlp.states.shape / nlp.controls.shape: total number of rows of the elements
Shape(elements) == SumSeq([i \in 1..Len(elements) |-> elements[i].n])

VARIABLES
    pc,                  \* position in the construction of the problem
    err,                 \* the exception that ended the last operation, or "none"
    nlp,                 \* ocp.nlp: one record per phase (index 0..n_phases-1)
    node_mappings,       \* NodeMappingList: registered NodeMapping entries
    x_scaled, u_scaled,  \* self.x_scaled / self.u_scaled: one matrix per phase
    n_phase_x, n_phase_u, n_all_x, n_all_u,
    x_bounds, u_bounds, x_init, u_init,
    parameters_in_list,
    n_adds,              \* number of add_parameter / NodeMappingList.add calls made
    ran,                 \* which of define_ocp_bounds / define_ocp_initial_guess have run
    data, data_states, data_controls, data_parameters,
    add_args,            \* the arguments of the last add / fill call
    bimappings,          \* BiMappingList.options: one dictionary name -> BiMapping per phase
    views,               \* what the last read of vector / bounds / init returned
    phase_time,          \* the last extract_phase_time call: its inputs and its result
    map_in, mapped_obj   \* Mapping.map: the mapping with its input, and the output

vars == <<pc, err, nlp, node_mappings, x_scaled, u_scaled, n_phase_x, n_phase_u,
          n_all_x, n_all_u, x_bounds, u_bounds, x_init, u_init, parameters_in_list,
          n_adds, ran, data, data_states, data_controls, data_parameters, add_args,
          bimappings, views, phase_time, map_in, mapped_obj>>

n_phases == Len(nlp)
Phases == 0..(n_phases - 1)

\* Python's None where an int is expected (the index sets drawn hold no negative index)
NoneValue == 0 - 1

\* ================================================================ Mapping
\* Mapping.__init__: self.oppose = [1] * len(map_idx), then -1 at each listed position
RECURSIVE SetOpposed(_, _)
SetOpposed(oppose, positions) ==
    IF positions = {} THEN oppose
    ELSE LET i == CHOOSE x \in positions : TRUE
         IN  SetOpposed([oppose EXCEPT ![i + 1] = 0 - 1], positions \ {i})

\* a constructor that would leave every sign at +1
MappingInitKeepsSigns(map_idx, oppose_arg) ==
    [map_idx |-> map_idx, oppose |-> [i \in 1..Len(map_idx) |-> 1]]

\* Mapping.__init__ (lines 34-55); oppose_arg holds the positions of the oppose
\* argument, none for None and one for an int
MappingInit(map_idx, oppose_arg) ==
    [map_idx |-> map_idx,
     oppose  |-> SetOpposed([i \in 1..Len(map_idx) |-> 1], oppose_arg)]

\* the four index lists built by the enumerate loop of Mapping.map
RECURSIVE IndexLists(_, _, _)
IndexLists(self, i, acc) ==
    IF i >= Len(self.map_idx) THEN acc
    ELSE LET v == At(self.map_idx, i)
         IN  IndexLists(self, i + 1,
                 IF v # NoneValue /\ At(self.oppose, i) > 0
                 THEN [acc EXCEPT !.plus_in_origin = Append(@, v),
                                  !.plus_in_new = Append(@, i)]
                 ELSE IF v # NoneValue /\ At(self.oppose, i) < 0
                 THEN [acc EXCEPT !.minus_in_origin = Append(@, v),
                                  !.minus_in_new = Append(@, i)]
                 ELSE acc)

\* target[in_new, :] = sign * obj[in_origin, :] (numpy assignment through index lists)
RECURSIVE FancyAssign(_, _, _, _, _)
FancyAssign(target, in_new, in_origin, obj, sign) ==
    IF Len(in_new) = 0 THEN target
    ELSE FancyAssign(
            [target EXCEPT ![Head(in_new) + 1] =
                [c \in 1..Len(At(obj, Head(in_origin))) |-> sign * At(obj, Head(in_origin))[c]]],
            Tail(in_new), Tail(in_origin), obj, sign)

\* obj[:, np.newaxis] for a 1-D input: every entry becomes a row of one column
As2D(obj, ndim) == IF ndim = 1 THEN [r \in 1..Len(obj) |-> <<obj[r]>>] ELSE obj

\* a plausible slip: the negated rows are never filled
MapKeepsZerosAtOpposed(self, obj, ndim) ==
    LET obj2  == As2D(obj, ndim)
        idx   == IndexLists(self, 0, [plus_in_origin |-> << >>, plus_in_new |-> << >>,
                                      minus_in_origin |-> << >>, minus_in_new |-> << >>])
        zeros == [i \in 1..Len(self.map_idx) |-> [c \in 1..Len(obj2[1]) |-> 0]]
    IN  FancyAssign(zeros, idx.plus_in_new, idx.plus_in_origin, obj2, 1)

\* Mapping.map on a numpy array with at least one row
Map(self, obj, ndim) ==
    LET obj2  == As2D(obj, ndim)
        idx   == IndexLists(self, 0, [plus_in_origin |-> << >>, plus_in_new |-> << >>,
                                      minus_in_origin |-> << >>, minus_in_new |-> << >>])
        zeros == [i \in 1..Len(self.map_idx) |-> [c \in 1..Len(obj2[1]) |-> 0]]
        plus  == FancyAssign(zeros, idx.plus_in_new, idx.plus_in_origin, obj2, 1)
    IN  FancyAssign(plus, idx.minus_in_new, idx.minus_in_origin, obj2, 0 - 1)

\* map_idx lists of a given length over the source rows 0..n_src-1 and None
MapIdxLists(len, n_src) == [1..len -> (0..(n_src - 1)) \cup {NoneValue}]

\* the inputs: 1-D arrays of n_src entries and 2-D arrays of n_src rows
ObjArrays(n_src, ndim) ==
    IF ndim = 1
    THEN { [r \in 1..n_src |-> s * r] : s \in {0 - 1, 1} }
    ELSE { [r \in 1..n_src |-> [c \in 1..n_cols |-> s * ((r - 1) * n_cols + c)]] :
            n_cols \in 1..MaxCols, s \in {0 - 1, 1} }

\* the entry of row r (from 0), column c (from 1) of the input seen as a 2-D array
ObjEntry(r, c) == IF map_in.ndim = 1 THEN At(map_in.obj, r) ELSE At(map_in.obj, r)[c]

\* the number of columns of the input seen as a 2-D array
ObjCols == IF map_in.ndim = 1 THEN 1 ELSE Len(map_in.obj[1])

InitMapping ==
    /\ pc = "map_ready"
    /\ err = "none"
    /\ \E len \in 0..MaxMapLen, n_src \in 1..MaxSrcLen, ndim \in 1..2 :
         \E map_idx \in MapIdxLists(len, n_src), oppose_arg \in SUBSET (0..(len - 1)),
            obj \in ObjArrays(n_src, ndim) :
              map_in = [self |-> MappingInit(map_idx, oppose_arg),
                        oppose_arg |-> oppose_arg, obj |-> obj, ndim |-> ndim]
    /\ mapped_obj = << >> /\ bimappings = << >> /\ views = << >> /\ phase_time = << >>
    /\ nlp = << >> /\ node_mappings = << >>
    /\ x_scaled = << >> /\ u_scaled = << >>
    /\ n_phase_x = << >> /\ n_phase_u = << >> /\ n_all_x = 0 /\ n_all_u = 0
    /\ x_bounds = << >> /\ u_bounds = << >> /\ x_init = << >> /\ u_init = << >>
    /\ parameters_in_list = << >> /\ n_adds = 0 /\ ran = {}
    /\ data = << >> /\ data_states = << >> /\ data_controls = << >>
    /\ data_parameters = << >> /\ add_args = << >>

MapApply ==
    /\ pc = "map_ready"
    /\ mapped_obj' = Map(map_in.self, map_in.obj, map_in.ndim)
    /\ pc' = "map_done"
    /\ UNCHANGED <<err, nlp, node_mappings, x_scaled, u_scaled, n_phase_x, n_phase_u,
                   n_all_x, n_all_u, x_bounds, u_bounds, x_init, u_init,
                   parameters_in_list, n_adds, ran, data, data_states, data_controls,
                   data_parameters, add_args, map_in, bimappings,
                   views, phase_time>>

NextMapping == MapApply

SpecMapping == InitMapping /\ [][NextMapping]_vars

\* C9: map(v) has len(map_idx) rows and the input's columns; row i is zero when
\* map_idx[i] is None, otherwise it is v[map_idx[i], :], negated exactly at the
\* positions listed in the oppose argument.
C9_MapRows ==
    pc = "map_done" =>
        /\ Len(mapped_obj) = Len(map_in.self.map_idx)
        /\ \A i \in 0..(Len(mapped_obj) - 1) :
             LET v == At(map_in.self.map_idx, i)
                 sign == IF i \in map_in.oppose_arg THEN 0 - 1 ELSE 1
             IN  /\ Len(At(mapped_obj, i)) = ObjCols
                 /\ \A c \in 1..ObjCols :
                      At(mapped_obj, i)[c] =
                          IF v = NoneValue THEN 0 ELSE sign * ObjEntry(v, c)

\* a mapping with a None row, an opposed row and a source row used twice has been applied
C9_Witness ==
    /\ pc = "map_done"
    /\ \E i, j, k \in 0..(Len(mapped_obj) - 1) :
         /\ i # j /\ At(map_in.self.map_idx, i) = At(map_in.self.map_idx, j)
         /\ At(map_in.self.map_idx, i) # NoneValue
         /\ j \in map_in.oppose_arg /\ i \notin map_in.oppose_arg
         /\ At(map_in.self.map_idx, k) = NoneValue
         /\ At(mapped_obj, j)[1] # 0
         /\ At(mapped_obj, j)[1] = 0 - At(mapped_obj, i)[1]

\* ======================================================== NodeMappingList
\* a BiMappingList as its list of per-phase dictionaries name -> BiMapping
IdentityBiMapping == [to_second |-> MappingInit(RangeList(0, MaxRows), {}),
                      to_first  |-> MappingInit(RangeList(0, MaxRows), {})]

BiMappingLists ==
    { [kind |-> "BiMappingList",
       options |-> [p \in 1..n |-> [key \in names |-> IdentityBiMapping]]] :
         n \in 1..MaxPhases, names \in {{"q"}, {"q", "tau"}} }

\* what a caller may pass as variable_mapping
VariableMappingArgs ==
    {[kind |-> "None", options |-> << >>], [kind |-> "dict", options |-> << >>]}
        \cup BiMappingLists

PhaseArgs == {NoneValue} \cup (0..(MaxPhases - 1))

AddArgs ==
    [name : {"q", "tau"}, map_states : BOOLEAN, map_controls : BOOLEAN,
     phase_pre : PhaseArgs, phase_post : PhaseArgs, index : {<<0>>},
     variable_mapping : VariableMappingArgs]

\* variable_mapping[phase_pre][name] (line 337): the exception it ends with, or "none"
VariableMappingLookupError(a) ==
    IF a.variable_mapping.kind = "None" THEN "TypeError"
    ELSE IF a.phase_pre >= Len(a.variable_mapping.options) THEN "IndexError"
    ELSE IF a.name \notin DOMAIN At(a.variable_mapping.options, a.phase_pre) THEN "KeyError"
    ELSE "none"

\* a slip that would let a back-reference through
AddErrorNoOrderCheck(a) ==
    IF a.map_states = FALSE /\ a.map_controls = FALSE THEN "Warning"
    ELSE IF a.map_states = TRUE /\ a.map_controls = TRUE THEN "ValueError: both"
    ELSE IF a.phase_pre = NoneValue \/ a.phase_post = NoneValue THEN "ValueError: phases"
    ELSE IF ~(a.variable_mapping.kind \in {"BiMappingList", "None"})
         THEN "ValueError: variable_mapping"
    ELSE VariableMappingLookupError(a)

\* the exception NodeMappingList.add ends with on arguments a, or "none"
AddError(a) ==
    IF a.map_states = FALSE /\ a.map_controls = FALSE THEN "Warning"
    ELSE IF a.map_states = TRUE /\ a.map_controls = TRUE THEN "ValueError: both"
    ELSE IF a.phase_pre = NoneValue \/ a.phase_post = NoneValue THEN "ValueError: phases"
    ELSE IF a.phase_pre > a.phase_post THEN "ValueError: order"
    ELSE IF ~(a.variable_mapping.kind \in {"BiMappingList", "None"})
         THEN "ValueError: variable_mapping"
    ELSE VariableMappingLookupError(a)

\* the NodeMapping that _add stores under options[phase_pre][name]
NodeMappingOf(a) ==
    [map_states |-> a.map_states, map_controls |-> a.map_controls,
     phase_pre |-> a.phase_pre, phase_post |-> a.phase_post, index |-> a.index,
     variable_mapping |-> At(a.variable_mapping.options, a.phase_pre)[a.name]]

Register(list, a) == (<<a.phase_pre, a.name>> :> NodeMappingOf(a)) @@ list

InitNodeMapping ==
    /\ pc = "node_mapping"
    /\ err = "none"
    /\ node_mappings = << >>
    /\ add_args = << >>
    /\ n_adds = 0 /\ ran = {}
    /\ nlp = << >> /\ x_scaled = << >> /\ u_scaled = << >>
    /\ n_phase_x = << >> /\ n_phase_u = << >> /\ n_all_x = 0 /\ n_all_u = 0
    /\ x_bounds = << >> /\ u_bounds = << >> /\ x_init = << >> /\ u_init = << >>
    /\ parameters_in_list = << >>
    /\ data = << >> /\ data_states = << >> /\ data_controls = << >>
    /\ data_parameters = << >> /\ map_in = << >> /\ mapped_obj = << >>
    /\ bimappings = << >> /\ views = << >> /\ phase_time = << >>

NodeMappingListAdd ==
    /\ pc = "node_mapping"
    /\ n_adds < MaxAdds
    /\ \E a \in AddArgs :
         /\ add_args' = a
         /\ err' = AddError(a)
         /\ node_mappings' = IF AddError(a) = "none" THEN Register(node_mappings, a)
                             ELSE node_mappings
    /\ n_adds' = n_adds + 1
    /\ UNCHANGED <<pc, ran, nlp, x_scaled, u_scaled, n_phase_x, n_phase_u, n_all_x, n_all_u,
                   x_bounds, u_bounds, x_init, u_init, parameters_in_list, data,
                   data_states, data_controls, data_parameters, map_in, mapped_obj, bimappings,
                   views, phase_time>>

NextNodeMapping == NodeMappingListAdd

SpecNodeMapping == InitNodeMapping /\ [][NextNodeMapping]_vars

\* the four conditions under which add is documented to raise
AddDocumentedRaise(a) ==
    \/ a.map_states = a.map_controls
    \/ a.phase_pre = NoneValue \/ a.phase_post = NoneValue
    \/ a.phase_pre > a.phase_post
    \/ a.variable_mapping.kind \notin {"None", "BiMappingList"}

\* C10: add raises if and only if one of the four documented conditions holds; in
\* every other case, variable_mapping = None included, the entry is registered.
C10_AddRaisesIff ==
    n_adds > 0 =>
        /\ (err # "none") <=> AddDocumentedRaise(add_args)
        /\ ~AddDocumentedRaise(add_args) =>
             <<add_args.phase_pre, add_args.name>> \in DOMAIN node_mappings

\* ============================================ NodeMappingList resolution
NodeMappingIndex(phase, index, variable_mapped_index) ==
    [phase |-> phase, index |-> index, variable_mapped_index |-> variable_mapped_index]

\* the entries in iteration order: per phase_pre ascending; names of one phase_pre
\* are distinct keys, so their relative order does not change the result
RECURSIVE KeysInOrder(_)
KeysInOrder(keys) ==
    IF keys = {} THEN << >>
    ELSE LET first == CHOOSE k \in keys : \A o \in keys : k[1] <= o[1]
         IN  <<first>> \o KeysInOrder(keys \ {first})

\* [node_mapping[key].variable_mapping.to_second.map_idx[j] for j in index]
VariableMappedIndex(entry) ==
    [j \in 1..Len(entry.index) |-> At(entry.variable_mapping.to_second.map_idx, entry.index[j])]

\* the dictionary of phase `post` built by the loop of get_variable_from_phase_idx
RECURSIVE PhaseMappingIdx(_, _, _, _, _)
PhaseMappingIdx(list, keys, post, controls, acc) ==
    IF Len(keys) = 0 THEN acc
    ELSE LET entry == list[Head(keys)]
             hit == /\ entry.phase_post = post
                    /\ IF controls THEN entry.map_controls ELSE entry.map_states
         IN  PhaseMappingIdx(list, Tail(keys), post, controls,
                 IF hit
                 THEN (Head(keys)[2] :> NodeMappingIndex(entry.phase_pre, entry.index,
                                                         VariableMappedIndex(entry))) @@ acc
                 ELSE acc)

\* ================================= OptimizationVector: shooting points
\* nlp.cx.sym(name, 1, width): the scalar entries of one fresh symbol
Sym(kind, phase_idx, k, liberty, width) ==
    [c \in 1..width |-> <<kind, phase_idx, k, liberty, c - 1>>]

\* x_scaled * scaling["all"].scaling[i]: the product, by its two factors
Scaled(sym, phase_idx, i) == [scaled |-> sym, scaling |-> <<phase_idx, i>>]

\* the loop over the elements (lines 405-421 for states, 426-442 for controls)
RECURSIVE ElementLoop(_, _, _, _)
ElementLoop(elements, phase_mapping_idx, i, acc) ==
    IF i > Len(elements) THEN acc
    ELSE LET element == elements[i]
             own    == RangeList(acc.current_index, acc.current_index + element.n)
             mapped == element.name \in DOMAIN phase_mapping_idx
             rec    == phase_mapping_idx[element.name]
         IN  ElementLoop(elements, phase_mapping_idx, i + 1,
                 [index |-> acc.index \o (IF mapped THEN rec.index ELSE own),
                  variable_mapped |-> acc.variable_mapped
                        \o (IF mapped THEN rec.variable_mapped_index ELSE own),
                  use_from_phase |-> IF mapped THEN rec.phase ELSE acc.use_from_phase,
                  phase_mapping |-> acc.phase_mapping \/ mapped,
                  current_index |-> acc.current_index + element.n])

ElementIndex(elements, phase_mapping_idx, phase_idx) ==
    ElementLoop(elements, phase_mapping_idx, 1,
        [index |-> << >>, variable_mapped |-> << >>, use_from_phase |-> phase_idx,
         phase_mapping |-> FALSE, current_index |-> 0])

\* node k of a phase that owns its variables (lines 459-477, 504-508)
OwnNode(kind, phase_idx, k, shape, width) ==
    [scaled   |-> [l \in 1..shape |-> Sym(kind, phase_idx, k, l - 1, width)],
     unscaled |-> [l \in 1..shape |->
                     Scaled(Sym(kind, phase_idx, k, l - 1, width), phase_idx, l - 1)],
     new_variable_count |-> 0,
     err |-> "none"]

\* node k of a phase that uses another phase's variables (lines 478-500, 509-520):
\* src_scaled / src_unscaled are x_scaled[use_from_phase] and x[use_from_phase]
RECURSIVE AliasNode(_, _, _, _, _, _, _, _, _, _, _)
AliasNode(kind, phase_idx, k, shape, width, colloc_node, mapped, src_scaled, src_unscaled, liberty, acc) ==
    IF liberty >= shape \/ acc.err # "none" THEN acc
    ELSE AliasNode(kind, phase_idx, k, shape, width, colloc_node, mapped, src_scaled,
                   src_unscaled, liberty + 1,
            IF InList(liberty, mapped)
            THEN IF k >= Len(src_scaled) \/ liberty >= Len(At(src_scaled, k))
                 THEN [acc EXCEPT !.err = "IndexError"]
                 ELSE [acc EXCEPT !.scaled = Append(@, At(At(src_scaled, k), liberty)),
                                  !.unscaled = Append(@, At(At(src_unscaled, k), liberty))]
            ELSE [acc EXCEPT
                    !.scaled = Append(@, Sym(kind, phase_idx, k, liberty, width)),
                    !.unscaled = Append(@, Scaled(Sym(kind, phase_idx, k, liberty, width),
                                                  phase_idx, acc.new_variable_count)),
                    !.new_variable_count = IF colloc_node THEN @ ELSE @ + 1])

EmptyNode == [scaled |-> << >>, unscaled |-> << >>, new_variable_count |-> 0, err |-> "none"]

\* vertcat(*node): one column per column of the symbols, which must agree in width
VertcatError(node) == \E i, j \in 1..Len(node) : Len(node[i]) # Len(node[j])

Vertcat(node) ==
    IF Len(node) = 0 THEN << >>
    ELSE [c \in 1..Len(node[1]) |-> [l \in 1..Len(node) |-> node[l][c]]]

\* lines 524-529 / 538-543: the nodes side by side
PhaseMatrix(nodes) == Flatten([k \in 1..Len(nodes) |-> Vertcat(nodes[k])])

MatrixRows(m) == IF Len(m) = 0 THEN 0 ELSE Len(m[1])

PhaseCountAlwaysSubtracts(rows, n_mapped, n_nodes) == (rows - n_mapped) * n_nodes

\* lines 531-534 / 549-552
PhaseCount(rows, n_mapped, n_nodes) ==
    IF n_mapped # rows THEN (rows - n_mapped) * n_nodes ELSE rows * n_nodes

\* the first exception of a list of per-node results, in node order
RECURSIVE FirstError(_)
FirstError(errs) ==
    IF Len(errs) = 0 THEN "none"
    ELSE IF Head(errs) # "none" THEN Head(errs) ELSE FirstError(Tail(errs))

\* a declaration that would give a control to the last node whatever the control type
ControlNodeEveryNode(control_type, k, ns) == k <= ns

\* the condition of lines 506 and 511 (and 119-120 in `vector`)
ControlNode(control_type, k, ns) == control_type # "CONSTANT" \/ k # ns

\* nlp.states_phase_mapping_idx['all'] = NodeMappingIndex(...) when an element is mapped
WithAll(phase_mapping_idx, e) ==
    IF e.phase_mapping
    THEN ("all" :> NodeMappingIndex(e.use_from_phase, e.index, e.variable_mapped))
            @@ phase_mapping_idx
    ELSE phase_mapping_idx

\* x_scaled[use_from_phase] as the node loop of phase p can read it: the lists of the
\* phases before p are complete, and the list has no entry beyond p
SourceLists(acc, use_from_phase, phase_idx, field) ==
    IF use_from_phase < phase_idx THEN At(acc.nlp, use_from_phase)[field] ELSE << >>

\* one turn of the loop `for nlp in self.ocp.nlp` (lines 402-552)
DeclarePhase(acc, phase_idx) ==
    LET me  == At(acc.nlp, phase_idx)
        ex  == ElementIndex(me.states, me.states_phase_mapping_idx, phase_idx)
        eu  == ElementIndex(me.controls, me.controls_phase_mapping_idx, phase_idx)
        me1 == [me EXCEPT !.use_states_from_phase = ex.use_from_phase,
                          !.states_phase_mapping_idx = WithAll(@, ex),
                          !.use_controls_from_phase = eu.use_from_phase,
                          !.controls_phase_mapping_idx = WithAll(@, eu)]
        colloc(k) == k # me.ns /\ me.ode_solver.is_direct_collocation
        width(k)  == IF colloc(k) THEN me.ode_solver.polynomial_degree + 1 ELSE 1
        xnode(k)  ==
            IF phase_idx = ex.use_from_phase
            THEN OwnNode("X", phase_idx, k, Shape(me.states), width(k))
            ELSE AliasNode("X", phase_idx, k, Shape(me.states), width(k), colloc(k),
                           ex.variable_mapped,
                           SourceLists(acc, ex.use_from_phase, phase_idx, "X_scaled"),
                           SourceLists(acc, ex.use_from_phase, phase_idx, "X"),
                           0, EmptyNode)
        unode(k)  ==
            IF ~ControlNode(me.control_type, k, me.ns) THEN EmptyNode
            ELSE IF phase_idx = eu.use_from_phase
            THEN OwnNode("U", phase_idx, k, Shape(me.controls), 1)
            ELSE AliasNode("U", phase_idx, k, Shape(me.controls), 1, FALSE,
                           eu.variable_mapped,
                           SourceLists(acc, eu.use_from_phase, phase_idx, "U_scaled"),
                           SourceLists(acc, eu.use_from_phase, phase_idx, "U"),
                           0, EmptyNode)
        xs  == [k \in 1..(me.ns + 1) |-> xnode(k - 1)]
        us  == [k \in 1..(me.ns + 1) |-> unode(k - 1)]
        loop_err == FirstError(Flatten([k \in 1..(me.ns + 1) |-> <<xs[k].err, us[k].err>>]))
        X_scaled == [k \in 1..(me.ns + 1) |-> xs[k].scaled]
        U_scaled == [k \in 1..(me.ns + 1) |-> us[k].scaled]
        me2 == [me1 EXCEPT !.X_scaled = X_scaled,
                           !.X = [k \in 1..(me.ns + 1) |-> xs[k].unscaled]]
        me3 == [me2 EXCEPT !.U_scaled = U_scaled,
                           !.U = [k \in 1..(me.ns + 1) |-> us[k].unscaled]]
        x_all == PhaseMatrix(X_scaled)
        u_all == PhaseMatrix(U_scaled)
        last_node == IF me.control_type = "CONSTANT" THEN me.ns ELSE me.ns + 1
    IN  IF me.control_type \notin {"CONSTANT", "LINEAR_CONTINUOUS"}
        THEN [acc EXCEPT !.nlp[phase_idx + 1] = me1, !.err = "NotImplementedError"]
        ELSE IF loop_err # "none"
        THEN [acc EXCEPT !.nlp[phase_idx + 1] = me1, !.err = loop_err]
        ELSE IF \E k \in 1..(me.ns + 1) : VertcatError(X_scaled[k])
        THEN [acc EXCEPT !.nlp[phase_idx + 1] = me2, !.err = "RuntimeError"]
        ELSE [acc EXCEPT
                !.nlp[phase_idx + 1] = me3,
                !.x_scaled[phase_idx + 1] = x_all,
                !.n_phase_x[phase_idx + 1] =
                    PhaseCount(MatrixRows(x_all), Len(ex.variable_mapped), me.ns + 1),
                !.u_scaled[phase_idx + 1] = u_all,
                !.n_phase_u[phase_idx + 1] =
                    PhaseCount(MatrixRows(u_all), Len(eu.variable_mapped), last_node)]

RECURSIVE DeclarePhases(_, _)
DeclarePhases(acc, phase_idx) ==
    IF phase_idx >= Len(acc.nlp) \/ acc.err # "none" THEN acc
    ELSE DeclarePhases(DeclarePhase(acc, phase_idx), phase_idx + 1)

\* ========================================= OptimizationVector: vector
\* the state entries `vector` appends for one phase (lines 110-117)
VectorStatesOfPhase(phase_idx) ==
    LET me == At(nlp, phase_idx)
        m  == At(x_scaled, phase_idx)
        emit(liberty) ==
            IF me.use_states_from_phase = phase_idx THEN TRUE
            ELSE IF "all" \in DOMAIN me.states_phase_mapping_idx
                 THEN ~InList(liberty, me.states_phase_mapping_idx["all"].variable_mapped_index)
                 ELSE FALSE
    IN  Flatten([k \in 1..(me.ns + 1) |->
            Flatten([l \in 1..Shape(me.states) |->
                IF emit(l - 1) THEN <<m[k][l]>> ELSE << >>])])

\* the control entries `vector` appends for one phase (lines 118-127)
VectorControlsOfPhase(phase_idx) ==
    LET me == At(nlp, phase_idx)
        m  == At(u_scaled, phase_idx)
        emit(liberty) ==
            IF me.use_controls_from_phase = phase_idx THEN TRUE
            ELSE IF "all" \in DOMAIN me.controls_phase_mapping_idx
                 THEN ~InList(liberty, me.controls_phase_mapping_idx["all"].variable_mapped_index)
                 ELSE FALSE
    IN  Flatten([k \in 1..(me.ns + 1) |->
            IF ControlNode(me.control_type, k - 1, me.ns)
            THEN Flatten([l \in 1..Shape(me.controls) |->
                    IF emit(l - 1) THEN <<m[k][l]>> ELSE << >>])
            ELSE << >>])

\* self.parameters_in_list.cx: the symbols of the pool entries, in pool order
ParametersCx == Flatten([i \in 1..Len(parameters_in_list) |-> parameters_in_list[i].cx])

VectorStates == Flatten([p \in 1..n_phases |-> VectorStatesOfPhase(p - 1)])

VectorControls == Flatten([p \in 1..n_phases |-> VectorControlsOfPhase(p - 1)])

\* the property `vector` (lines 97-129)
Vector == VectorStates \o VectorControls \o ParametersCx

\* ================================== OptimizationVector: add_parameter
ParamNames == {"time", "mass"}

ParamFunctions == {"f", "g"}

\* a Parameter as the caller builds it; `call` tells apart the symbols of two calls
NewParameter(name, size, function, params, call) ==
    [name |-> name, size |-> size, function |-> function, params |-> params,
     cx |-> [i \in 1..size |-> <<"P", name, call, i - 1>>],
     mx |-> [i \in 1..size |-> <<"P_MX", name, call, i - 1>>],
     scaling |-> [i \in 1..size |-> <<"scaling", name, call, i - 1>>],
     bounds |-> [i \in 1..size |-> <<"bounds", name, call, i - 1>>],
     initial_guess |-> [i \in 1..size |-> <<"init", name, call, i - 1>>]]

PoolIndex(pool, name) == CHOOSE i \in 1..Len(pool) : pool[i].name = name

\* add_parameter that would put the added symbols ahead of those the entry holds
AddParameterResultPrepends(pool, param) ==
    IF \E i \in 1..Len(pool) : pool[i].name = param.name
    THEN LET i == PoolIndex(pool, param.name)
         IN  IF param.function # pool[i].function
             THEN [pool |-> pool, err |-> "RuntimeError: function"]
             ELSE [pool |-> [pool EXCEPT ![i].size = @ + param.size,
                                         ![i].cx = param.cx \o @,
                                         ![i].mx = param.mx \o @,
                                         ![i].scaling = param.scaling \o @,
                                         ![i].bounds = param.bounds \o @,
                                         ![i].initial_guess = param.initial_guess \o @],
                   err |-> "none"]
    ELSE [pool |-> Append(pool, param), err |-> "none"]

\* add_parameter (lines 694-723): the pool after the call and the exception, if any
AddParameterResult(pool, param) ==
    IF \E i \in 1..Len(pool) : pool[i].name = param.name
    THEN LET i == PoolIndex(pool, param.name)
             grown == [pool EXCEPT ![i].size = @ + param.size,
                                   ![i].cx = @ \o param.cx,
                                   ![i].mx = @ \o param.mx,
                                   ![i].scaling = @ \o param.scaling]
         IN  IF param.function # pool[i].function
             THEN [pool |-> pool, err |-> "RuntimeError: function"]
             ELSE IF param.params # pool[i].params
             THEN [pool |-> grown, err |-> "RuntimeError: params"]
             ELSE [pool |-> [grown EXCEPT ![i].bounds = @ \o param.bounds,
                                          ![i].initial_guess = @ \o param.initial_guess],
                   err |-> "none"]
    ELSE [pool |-> Append(pool, param), err |-> "none"]

\* ============================ OptimizationVector: bounds and initial guess
\* ocp.get_nx_and_nu_phase_mapped(): the rows of a phase that are its own unknowns
RowsPhaseMapped(use_from_phase, phase_idx, shape, phase_mapping_idx) ==
    IF use_from_phase = phase_idx \/ "all" \notin DOMAIN phase_mapping_idx THEN shape
    ELSE Cardinality({l \in 0..(shape - 1) :
                        ~InList(l, phase_mapping_idx["all"].variable_mapped_index)})

NxPhaseMapped(phase_idx) ==
    LET me == At(nlp, phase_idx)
    IN  RowsPhaseMapped(me.use_states_from_phase, phase_idx, Shape(me.states),
                        me.states_phase_mapping_idx)

NuPhaseMapped(phase_idx) ==
    LET me == At(nlp, phase_idx)
    IN  RowsPhaseMapped(me.use_controls_from_phase, phase_idx, Shape(me.controls),
                        me.controls_phase_mapping_idx)

\* the iterations (k, p) of the loops of lines 587-588 whose span (line 589) holds idx
StateSpanWriters(idx, nx, ns, collocation, degree) ==
    LET repeat == IF collocation THEN degree + 1 ELSE 1
        outer_offset == nx * repeat
    IN  {w \in (0..ns) \X (0..(repeat - 1)) :
            /\ w[1] # ns \/ w[2] = 0
            /\ w[1] * outer_offset + w[2] * nx <= idx
            /\ idx < w[1] * outer_offset + (w[2] + 1) * nx}

\* a state block whose every sub-point holds the bounds of its own node
StateBlockPointIsNode(tag, phase_idx, nx, ns, collocation, degree) ==
    LET repeat == IF collocation THEN degree + 1 ELSE 1
        all_nx == IF collocation THEN nx * ns * (degree + 1) + nx ELSE nx * (ns + 1)
    IN  [i \in 1..all_nx |-> <<tag, phase_idx, (i - 1) \div (nx * repeat), (i - 1) % nx>>]

\* the block filled by the loops over k and p (lines 586-592 and 667-677): entry idx
\* holds what its last writer evaluated, <<tag, phase, point, row>>, or zero
StateBlock(tag, phase_idx, nx, ns, collocation, degree) ==
    LET repeat == IF collocation THEN degree + 1 ELSE 1
        outer_offset == nx * repeat
        all_nx == IF collocation THEN nx * ns * (degree + 1) + nx ELSE nx * (ns + 1)
        start(w) == w[1] * outer_offset + w[2] * nx
        point(w) == IF w[1] # 0 THEN w[1] ELSE IF w[2] = 0 THEN 0 ELSE 1
        writers(idx) == {w \in (0..ns) \X (0..(repeat - 1)) :
                            /\ w[1] # ns \/ w[2] = 0
                            /\ start(w) <= idx /\ idx < start(w) + nx}
        last(idx) == CHOOSE w \in writers(idx) : \A o \in writers(idx) : start(o) <= start(w)
    IN  [i \in 1..all_nx |->
            IF writers(i - 1) = {} THEN <<"zero">>
            ELSE <<tag, phase_idx, point(last(i - 1)), i - 1 - start(last(i - 1))>>]

\* the block filled by the loop over k (lines 603-606 and 688-690)
ControlBlock(tag, phase_idx, nu, ns) ==
    [i \in 1..(nu * ns) |-> <<tag, phase_idx, (i - 1) \div nu, (i - 1) % nu>>]

ControlNodes(me) == IF me.control_type = "CONSTANT" THEN me.ns ELSE me.ns + 1

\* define_ocp_bounds (lines 575-607), for phases of a supported control type
DefinedXBounds ==
    [p \in 1..n_phases |->
        LET me == nlp[p]
        IN  [min |-> StateBlock("x_min", p - 1, NxPhaseMapped(p - 1), me.ns,
                                me.ode_solver.is_direct_collocation,
                                me.ode_solver.polynomial_degree),
             max |-> StateBlock("x_max", p - 1, NxPhaseMapped(p - 1), me.ns,
                                me.ode_solver.is_direct_collocation,
                                me.ode_solver.polynomial_degree)]]

DefinedUBounds ==
    [p \in 1..n_phases |->
        [min |-> ControlBlock("u_min", p - 1, NuPhaseMapped(p - 1), ControlNodes(nlp[p])),
         max |-> ControlBlock("u_max", p - 1, NuPhaseMapped(p - 1), ControlNodes(nlp[p]))]]

\* define_ocp_initial_guess (lines 655-691) for an InitialGuess that is neither
\* noised nor given for each frame
DefinedXInit ==
    [p \in 1..n_phases |->
        LET me == nlp[p]
        IN  [init |-> StateBlock("x_init", p - 1, NxPhaseMapped(p - 1), me.ns,
                                 me.ode_solver.is_direct_collocation,
                                 me.ode_solver.polynomial_degree)]]

DefinedUInit ==
    [p \in 1..n_phases |->
        [init |-> ControlBlock("u_init", p - 1, NuPhaseMapped(p - 1), ControlNodes(nlp[p]))]]

\* the lower bounds without the rows of the parameters
BoundsMinStatesControlsOnly ==
    Flatten([p \in 1..Len(x_bounds) |-> x_bounds[p].min])
        \o Flatten([p \in 1..Len(u_bounds) |-> u_bounds[p].min])

\* the properties `bounds` (lines 131-163) and `init` (lines 165-212); scale() keeps
\* the order and the number of the entries
BoundsMin ==
    Flatten([p \in 1..Len(x_bounds) |-> x_bounds[p].min])
        \o Flatten([p \in 1..Len(u_bounds) |-> u_bounds[p].min])
        \o Flatten([i \in 1..Len(parameters_in_list) |-> parameters_in_list[i].bounds])

BoundsMax ==
    Flatten([p \in 1..Len(x_bounds) |-> x_bounds[p].max])
        \o Flatten([p \in 1..Len(u_bounds) |-> u_bounds[p].max])
        \o Flatten([i \in 1..Len(parameters_in_list) |-> parameters_in_list[i].bounds])

InitInit ==
    Flatten([p \in 1..Len(x_init) |-> x_init[p].init])
        \o Flatten([p \in 1..Len(u_init) |-> u_init[p].init])
        \o Flatten([i \in 1..Len(parameters_in_list) |-> parameters_in_list[i].initial_guess])

\* ================================ OptimizationVector: to_dictionaries
\* v.reshape((rows, -1), order="F") fails unless rows divides the size of v
ReshapeError(v, rows) == rows = 0 \/ Len(v) % rows # 0

\* the matrix as the list of its rows: entry [d, c] is v[c * rows + d]
Reshape(v, rows) ==
    [d \in 1..rows |-> [c \in 1..(Len(v) \div rows) |-> v[(c - 1) * rows + d]]]

\* the named blocks cut from the rows of x_array (lines 315-321 and 334-339);
\* widths[i] is n_var at the turn of element i
RECURSIVE NamedBlocks(_, _, _, _, _)
NamedBlocks(elements, widths, x_array, i, acc) ==
    IF i > Len(elements) THEN acc.blocks
    ELSE NamedBlocks(elements, widths, x_array, i + 1,
            [blocks |-> (elements[i].name :>
                            Slice(x_array, acc.offset_var, acc.offset_var + widths[i]))
                        @@ acc.blocks,
             offset_var |-> acc.offset_var + widths[i]])

\* one turn of the loop over the phases (lines 309-341 for the states, 345-377 for
\* the controls); v names the fields of the variable kind
ToDictionariesPhase(v_array, phase_idx, v, acc) ==
    LET me == At(nlp, phase_idx)
        n_phase == At(v.n_phase, phase_idx)
        chunk == Slice(v_array, acc.offset, acc.offset + n_phase)
        elements == me[v.elements]
        mapping == me[v.phase_mapping_idx]
        own == me[v.use_from_phase] = phase_idx
        rows == IF own THEN Shape(elements)
                ELSE Len(mapping["all"].variable_mapped_index)
        widths == [i \in 1..Len(elements) |-> IF own THEN elements[i].n ELSE rows]
        x_array == Reshape(chunk, rows)
    IN  IF ~own /\ "all" \notin DOMAIN mapping THEN acc
        ELSE IF ReshapeError(chunk, rows) THEN [acc EXCEPT !.err = "ValueError"]
        ELSE [acc EXCEPT
                !.out[acc.p_idx + 1] =
                    NamedBlocks(elements, widths, x_array, 1,
                                [blocks |-> ("all" :> x_array), offset_var |-> 0]),
                !.p_idx = @ + 1,
                !.offset = @ + n_phase]

RECURSIVE ToDictionariesLoop(_, _, _, _)
ToDictionariesLoop(v_array, phase_idx, v, acc) ==
    IF phase_idx >= n_phases \/ acc.err # "none" THEN acc
    ELSE ToDictionariesLoop(v_array, phase_idx + 1, v,
                            ToDictionariesPhase(v_array, phase_idx, v, acc))

StateFields == [elements |-> "states", phase_mapping_idx |-> "states_phase_mapping_idx",
                use_from_phase |-> "use_states_from_phase", n_phase |-> n_phase_x]

ControlFields == [elements |-> "controls", phase_mapping_idx |-> "controls_phase_mapping_idx",
                  use_from_phase |-> "use_controls_from_phase", n_phase |-> n_phase_u]

\* lines 379-389: each pool entry's slice times its scaling, entry by entry
RECURSIVE ToDictionariesParameters(_, _, _, _)
ToDictionariesParameters(v_array, i, offset, acc) ==
    IF i > Len(parameters_in_list) THEN acc
    ELSE LET param == parameters_in_list[i]
             chunk == Slice(v_array, offset, offset + param.size)
         IN  ToDictionariesParameters(v_array, i + 1, offset + param.size,
                (param.name :> [j \in 1..Len(chunk) |->
                                    [value |-> chunk[j], scaling |-> param.scaling[j]]])
                @@ acc)

\* to_dictionaries (lines 283-391)
ToDictionariesResult(v_array) ==
    LET empty == [p \in 1..n_phases |-> << >>]
        st == ToDictionariesLoop(v_array, 0, StateFields,
                                 [offset |-> 0, p_idx |-> 0, out |-> empty, err |-> "none"])
        ct == ToDictionariesLoop(v_array, 0, ControlFields,
                                 [offset |-> n_all_x, p_idx |-> 0, out |-> empty, err |-> "none"])
        tail == Slice(v_array, n_all_x + n_all_u, Len(v_array))
        pr == ToDictionariesParameters(v_array, 1, n_all_x + n_all_u,
                                       ("all" :> [j \in 1..Len(tail) |-> [value |-> tail[j]]]))
    IN  IF st.err # "none" THEN [err |-> st.err, states |-> << >>, controls |-> << >>,
                                 parameters |-> << >>]
        ELSE IF ct.err # "none" THEN [err |-> ct.err, states |-> << >>, controls |-> << >>,
                                      parameters |-> << >>]
        ELSE [err |-> "none", states |-> st.out, controls |-> ct.out, parameters |-> pr]

\* ====================================================== problem set-up
StateNames == <<"q", "qdot">>

ControlTypes == {"CONSTANT", "LINEAR_CONTINUOUS", "NONE"}

ParamSizes == {1, MaxParamSize}

\* a phase before anything is declared; the model has nb_q degrees of freedom, the
\* first n_states names of StateNames as states and the torques as controls
NewNlp(phase_idx, ns, nb_q, n_states, control_type, degree) ==
    [phase_idx |-> phase_idx, ns |-> ns,
     states |-> [i \in 1..n_states |-> [name |-> StateNames[i], n |-> nb_q]],
     controls |-> <<[name |-> "tau", n |-> nb_q]>>,
     control_type |-> control_type,
     ode_solver |-> [is_direct_collocation |-> degree > 0, polynomial_degree |-> degree],
     states_phase_mapping_idx |-> << >>, states_dot_phase_mapping_idx |-> << >>,
     controls_phase_mapping_idx |-> << >>,
     use_states_from_phase |-> NoneValue, use_controls_from_phase |-> NoneValue,
     X_scaled |-> << >>, X |-> << >>, U_scaled |-> << >>, U |-> << >>]

\* the arguments of an accepted NodeMappingList.add call for variable `name`
NodeMappingArgs(name, phase_pre, phase_post, index, map_idx) ==
    [name |-> name, map_states |-> name # "tau", map_controls |-> name = "tau",
     phase_pre |-> phase_pre, phase_post |-> phase_post, index |-> index,
     variable_mapping |->
        [kind |-> "BiMappingList",
         options |-> [p \in 1..(phase_pre + 1) |->
                        (name :> [to_second |-> MappingInit(map_idx, {}),
                                  to_first  |-> MappingInit(map_idx, {})])]]]

\* the index lists a node mapping may declare over n rows: non-empty, increasing
IndexChoices(n) ==
    { l \in UNION { [1..len -> 0..(n - 1)] : len \in 1..n } :
        \A i \in 1..(Len(l) - 1) : l[i] < l[i + 1] }

\* to_second.map_idx of the BiMapping of a variable of n rows: a permutation
MapIdxChoices(n) ==
    { m \in [1..n -> 0..(n - 1)] : \A i, j \in 1..n : i # j => m[i] # m[j] }

NodeMappingChoices(n_phases_, nb_q, names) ==
    { NodeMappingArgs(name, pre, post, index, map_idx) :
        name \in names, pre \in 0..(n_phases_ - 1), post \in 0..(n_phases_ - 1),
        index \in IndexChoices(nb_q), map_idx \in MapIdxChoices(nb_q) }

\* the fields no operation has touched yet
InitRest ==
    /\ err = "none"
    /\ x_scaled = [p \in 1..n_phases |-> << >>]
    /\ u_scaled = [p \in 1..n_phases |-> << >>]
    /\ n_phase_x = [p \in 1..n_phases |-> 0]
    /\ n_phase_u = [p \in 1..n_phases |-> 0]
    /\ n_all_x = 0 /\ n_all_u = 0
    /\ x_bounds = [p \in 1..n_phases |-> [min |-> << >>, max |-> << >>]]
    /\ u_bounds = [p \in 1..n_phases |-> [min |-> << >>, max |-> << >>]]
    /\ x_init = [p \in 1..n_phases |-> [init |-> << >>]]
    /\ u_init = [p \in 1..n_phases |-> [init |-> << >>]]
    /\ parameters_in_list = << >> /\ n_adds = 0 /\ ran = {}
    /\ data = << >> /\ data_states = << >> /\ data_controls = << >>
    /\ data_parameters = << >>
    /\ add_args = << >> /\ map_in = << >> /\ mapped_obj = << >>
    /\ bimappings = << >> /\ views = << >> /\ phase_time = << >>

\* problems of one or several phases that share a model, with at most one node mapping
Init ==
    /\ pc = "constructed"
    /\ \E n \in 1..MaxPhases, nb_q \in 1..MaxRows, n_states \in 1..Len(StateNames),
          control_type \in {"CONSTANT", "LINEAR_CONTINUOUS"}, degree \in 0..MaxDegree :
         \E ns \in [1..n -> 1..MaxNs] :
            /\ nlp = [p \in 1..n |-> NewNlp(p - 1, ns[p], nb_q, n_states, control_type, degree)]
            /\ \/ node_mappings = << >>
               \/ \E a \in NodeMappingChoices(n, nb_q,
                                {StateNames[i] : i \in 1..n_states} \cup {"tau"}) :
                     /\ AddError(a) = "none"
                     /\ node_mappings = Register(<< >>, a)
    /\ InitRest

\* single-phase problems without node mapping
InitSinglePhase ==
    /\ pc = "constructed"
    /\ \E nb_q \in 1..MaxRows, n_states \in 1..Len(StateNames), ns \in 1..MaxNs,
          control_type \in ControlTypes, degree \in 0..MaxDegree :
            nlp = <<NewNlp(0, ns, nb_q, n_states, control_type, degree)>>
    /\ node_mappings = << >>
    /\ InitRest

\* NodeMappingList.get_variable_from_phase_idx (lines 383-401)
GetVariableFromPhaseIdx ==
    /\ pc = "constructed"
    /\ LET keys == KeysInOrder(DOMAIN node_mappings)
       IN  nlp' = [p \in 1..n_phases |->
                [nlp[p] EXCEPT
                    !.states_phase_mapping_idx =
                        PhaseMappingIdx(node_mappings, keys, p - 1, FALSE, << >>),
                    !.states_dot_phase_mapping_idx =
                        PhaseMappingIdx(node_mappings, keys, p - 1, FALSE, << >>),
                    !.controls_phase_mapping_idx =
                        PhaseMappingIdx(node_mappings, keys, p - 1, TRUE, << >>)]]
    /\ pc' = "mapped"
    /\ UNCHANGED <<err, node_mappings, x_scaled, u_scaled, n_phase_x, n_phase_u, n_all_x,
                   n_all_u, x_bounds, u_bounds, x_init, u_init, parameters_in_list,
                   n_adds, ran, data, data_states, data_controls, data_parameters, add_args,
                   map_in, mapped_obj, bimappings,
                   views, phase_time>>

\* define_ocp_shooting_points (lines 393-555)
DefineOcpShootingPoints ==
    /\ pc = "mapped"
    /\ LET r == DeclarePhases([nlp |-> nlp, x_scaled |-> x_scaled, u_scaled |-> u_scaled,
                               n_phase_x |-> n_phase_x, n_phase_u |-> n_phase_u,
                               err |-> "none"], 0)
       IN  /\ nlp' = r.nlp
           /\ x_scaled' = r.x_scaled
           /\ u_scaled' = r.u_scaled
           /\ n_phase_x' = r.n_phase_x
           /\ n_phase_u' = r.n_phase_u
           /\ n_all_x' = IF r.err = "none" THEN SumSeq(r.n_phase_x) ELSE n_all_x
           /\ n_all_u' = IF r.err = "none" THEN SumSeq(r.n_phase_u) ELSE n_all_u
           /\ err' = r.err
           /\ pc' = IF r.err = "none" THEN "declared" ELSE "failed"
    /\ UNCHANGED <<node_mappings, x_bounds, u_bounds, x_init, u_init, parameters_in_list,
                   n_adds, ran, data, data_states, data_controls, data_parameters,
                   add_args, map_in, mapped_obj, bimappings,
                   views, phase_time>>

\* define_ocp_bounds (lines 557-608)
DefineOcpBounds ==
    /\ pc = "declared"
    /\ x_bounds' = DefinedXBounds
    /\ u_bounds' = DefinedUBounds
    /\ ran' = ran \cup {"define_ocp_bounds"}
    /\ UNCHANGED <<pc, err, nlp, node_mappings, x_scaled, u_scaled, n_phase_x, n_phase_u,
                   n_all_x, n_all_u, x_init, u_init, parameters_in_list, n_adds, data,
                   data_states, data_controls, data_parameters, add_args, map_in,
                   mapped_obj, bimappings,
                   views, phase_time>>

\* define_ocp_initial_guess (lines 633-692)
DefineOcpInitialGuess ==
    /\ pc = "declared"
    /\ x_init' = DefinedXInit
    /\ u_init' = DefinedUInit
    /\ ran' = ran \cup {"define_ocp_initial_guess"}
    /\ UNCHANGED <<pc, err, nlp, node_mappings, x_scaled, u_scaled, n_phase_x, n_phase_u,
                   n_all_x, n_all_u, x_bounds, u_bounds, parameters_in_list, n_adds, data,
                   data_states, data_controls, data_parameters, add_args, map_in,
                   mapped_obj, bimappings,
                   views, phase_time>>

\* add_parameter (lines 694-723)
AddParameter ==
    /\ pc \in {"constructed", "mapped", "declared"}
    /\ n_adds < MaxParamAdds
    /\ \E name \in ParamNames, size \in ParamSizes, function \in ParamFunctions :
         LET r == AddParameterResult(parameters_in_list,
                                     NewParameter(name, size, function, "none", n_adds))
         IN  /\ parameters_in_list' = r.pool
             /\ err' = r.err
             /\ add_args' = NewParameter(name, size, function, "none", n_adds)
             /\ ran' = IF r.err = "none" THEN ran ELSE ran \cup {"add_parameter raised"}
    /\ n_adds' = n_adds + 1
    /\ UNCHANGED <<pc, nlp, node_mappings, x_scaled, u_scaled, n_phase_x, n_phase_u,
                   n_all_x, n_all_u, x_bounds, u_bounds, x_init, u_init, data,
                   data_states, data_controls, data_parameters, map_in,
                   mapped_obj, bimappings,
                   views, phase_time>>

\* to_dictionaries (lines 283-391) on a solution vector of the length of `vector`
ToDictionaries ==
    /\ pc = "declared"
    /\ \E b \in 0..MaxDataBase :
         LET v_array == [i \in 1..Len(Vector) |-> b + i]
             r == ToDictionariesResult(v_array)
         IN  /\ data' = v_array
             /\ data_states' = r.states
             /\ data_controls' = r.controls
             /\ data_parameters' = r.parameters
             /\ err' = r.err
    /\ UNCHANGED <<pc, ran, nlp, node_mappings, x_scaled, u_scaled, n_phase_x, n_phase_u,
                   n_all_x, n_all_u, x_bounds, u_bounds, x_init, u_init,
                   parameters_in_list, n_adds, add_args, map_in, mapped_obj, bimappings,
                   views, phase_time>>

Next ==
    \/ GetVariableFromPhaseIdx
    \/ DefineOcpShootingPoints
    \/ DefineOcpBounds
    \/ DefineOcpInitialGuess
    \/ ToDictionaries

Spec == Init /\ [][Next]_vars

NextSinglePhase ==
    \/ GetVariableFromPhaseIdx
    \/ DefineOcpShootingPoints
    \/ AddParameter

SpecSinglePhase == InitSinglePhase /\ [][NextSinglePhase]_vars

\* ============================================================== claims
Range(seq) == {seq[i] : i \in 1..Len(seq)}

\* the scalar symbols held by the per-node lists of a phase
SymbolsOf(lists) ==
    UNION { UNION { Range(lists[k][l]) : l \in 1..Len(lists[k]) } : k \in 1..Len(lists) }

\* the scalar symbols that phase phase_idx allocated itself
AllocatedStates(phase_idx) ==
    {sym \in SymbolsOf(At(nlp, phase_idx).X_scaled) : sym[2] = phase_idx}

AllocatedControls(phase_idx) ==
    {sym \in SymbolsOf(At(nlp, phase_idx).U_scaled) : sym[2] = phase_idx}

\* the position (from 0) of a symbol in `vector`, NoneValue when it is not there
PositionInVector(sym) ==
    LET v == Vector
    IN  IF \E i \in 1..Len(v) : v[i] = sym
        THEN (CHOOSE i \in 1..Len(v) : v[i] = sym) - 1
        ELSE NoneValue

\* C1: after define_ocp_shooting_points every scaled symbol allocated for a state
\* or a control, and every parameter symbol, occurs in `vector` exactly once.
C1_EverySymbolOnce ==
    pc = "declared" =>
        LET v == Vector
            held == Range(v)
        IN  /\ Cardinality(held) = Len(v)
            /\ \A p \in Phases : AllocatedStates(p) \cup AllocatedControls(p) \subseteq held
            /\ Range(ParametersCx) \subseteq held

\* C2: after the three declaration steps `vector`, bounds.min, bounds.max and
\* init.init have the same length.
C2_SameLength ==
    (pc = "declared" /\ ran = {"define_ocp_bounds", "define_ocp_initial_guess"}) =>
        /\ Len(Vector) = Len(BoundsMin)
        /\ Len(Vector) = Len(BoundsMax)
        /\ Len(Vector) = Len(InitInit)

\* phase 1 of a two-phase problem aliases every state row of phase 0: each of its
\* state elements is mapped on phase 0 with index = [0..n-1] and an identity BiMapping
FullStateAlias ==
    /\ n_phases = 2
    /\ pc = "declared"
    /\ \A i \in 1..Len(nlp[2].states) :
         LET element == nlp[2].states[i]
         IN  /\ element.name \in DOMAIN nlp[2].states_phase_mapping_idx
             /\ nlp[2].states_phase_mapping_idx[element.name] =
                    NodeMappingIndex(0, RangeList(0, element.n), RangeList(0, element.n))
    /\ nlp[1].states = nlp[2].states

\* C3: when phase 1 aliases all state rows of phase 0, n_phase_x[1] == 0 and the
\* state part of `vector` consists only of the n*(ns+1) symbols of phase 0.
C3_FullAliasCountsZero ==
    FullStateAlias =>
        /\ At(n_phase_x, 1) = 0
        /\ \A i \in 1..Len(Vector) : ~(Vector[i][1] = "X" /\ Vector[i][2] = 1)
        /\ Range(VectorStates) = AllocatedStates(0)
        /\ Len(VectorStates) = Shape(nlp[1].states) * (nlp[1].ns + 1)

\* entry [d, k] of a matrix of to_dictionaries (rows and columns from 0)
Entry(matrix, d, k) == At(At(matrix, d), k)

\* the "all" matrix of a phase has the entry of `data` that stands where `vector`
\* holds the symbol of (node k, DOF d), for every node and DOF of the phase
ReadsOwnSymbols(result, lists, phase_idx, n_nodes, shape) ==
    /\ Len(result) > phase_idx
    /\ "all" \in DOMAIN At(result, phase_idx)
    /\ Len(At(result, phase_idx)["all"]) = shape
    /\ \A d \in 0..(shape - 1) :
         /\ Len(At(At(result, phase_idx)["all"], d)) = n_nodes
         /\ \A k \in 0..(n_nodes - 1) :
              LET pos == PositionInVector(At(At(lists, k), d)[1])
              IN  /\ pos # NoneValue
                  /\ Entry(At(result, phase_idx)["all"], d, k) = At(data, pos)

\* C4: when phase 1 aliases all state rows of phase 0, to_dictionaries returns for
\* phase 1 an "all" state matrix equal to that of phase 0, which is the state
\* trajectory of phase 0, and reads the controls from their positions in `vector`.
C4_FullAliasRoundTrip ==
    (FullStateAlias /\ data # << >>) =>
        /\ err = "none"
        /\ ReadsOwnSymbols(data_states, nlp[1].X_scaled, 0, nlp[1].ns + 1,
                           Shape(nlp[1].states))
        /\ "all" \in DOMAIN data_states[2]
        /\ data_states[2]["all"] = data_states[1]["all"]
        /\ \A p \in Phases :
             ReadsOwnSymbols(data_controls, At(nlp, p).U_scaled, p,
                             ControlNodes(At(nlp, p)), Shape(At(nlp, p).controls))

\* the rows a phase declares aliased: the index lists of its mapped elements
DeclaredAliasedRows(elements, phase_mapping_idx) ==
    SumSeq([i \in 1..Len(elements) |->
              IF elements[i].name \in DOMAIN phase_mapping_idx
              THEN Len(phase_mapping_idx[elements[i].name].index) ELSE 0])

\* every node mapping of the problem maps a phase on an earlier one
MapsOnEarlierPhase ==
    \A key \in DOMAIN node_mappings :
        node_mappings[key].phase_pre < node_mappings[key].phase_post

\* C5: a phase with r state rows of which a (0 < a < r) are declared aliased gets
\* n_phase_x == (r - a) * (ns + 1), whether the rows belong to one state element or
\* to several; a phase without aliased row gets r * (ns + 1).
C5_PartialAliasCount ==
    (pc = "declared" /\ MapsOnEarlierPhase) =>
        \A p \in Phases :
            LET me == At(nlp, p)
                r  == Shape(me.states)
                a  == DeclaredAliasedRows(me.states, me.states_phase_mapping_idx)
            IN  /\ a = 0 => At(n_phase_x, p) = r * (me.ns + 1)
                /\ (0 < a /\ a < r) => At(n_phase_x, p) = (r - a) * (me.ns + 1)

\* node k of phase post holds at DOF index[j] what node k of phase pre holds at DOF
\* variable_mapped_index[j], for every j of the record and every node k of phase post
SameSymbols(rec, post_lists, pre_lists, nodes) ==
    \A j \in 1..Len(rec.index) : \A k \in nodes :
        /\ k < Len(post_lists) /\ k < Len(pre_lists)
        /\ rec.index[j] < Len(At(post_lists, k))
        /\ rec.variable_mapped_index[j] < Len(At(pre_lists, k))
        /\ At(At(post_lists, k), rec.index[j])
              = At(At(pre_lists, k), rec.variable_mapped_index[j])

\* C6: for every resolved record {phase: pre, index, variable_mapped_index} of an
\* element of phase post, every j and every node k, the symbol at DOF index[j] of
\* phase post is the symbol, scaled and unscaled, at DOF variable_mapped_index[j] of
\* phase pre, also when index differs from variable_mapped_index.
C6_AliasedSymbolIdentity ==
    (pc = "declared" /\ MapsOnEarlierPhase) =>
        \A post \in Phases :
            LET me == At(nlp, post)
            IN  /\ \A name \in DOMAIN me.states_phase_mapping_idx \ {"all"} :
                     LET rec == me.states_phase_mapping_idx[name]
                         pre == At(nlp, rec.phase)
                     IN  /\ SameSymbols(rec, me.X_scaled, pre.X_scaled, 0..me.ns)
                         /\ SameSymbols(rec, me.X, pre.X, 0..me.ns)
                /\ \A name \in DOMAIN me.controls_phase_mapping_idx \ {"all"} :
                     LET rec == me.controls_phase_mapping_idx[name]
                         pre == At(nlp, rec.phase)
                     IN  /\ SameSymbols(rec, me.U_scaled, pre.U_scaled,
                                        0..(ControlNodes(me) - 1))
                         /\ SameSymbols(rec, me.U, pre.U, 0..(ControlNodes(me) - 1))

\* the sizes of the pool entries
ParametersSize == SumSeq([i \in 1..Len(parameters_in_list) |-> parameters_in_list[i].size])

\* a declared problem of one phase, without node mapping and without direct collocation
SinglePhasePlain ==
    /\ pc = "declared"
    /\ n_phases = 1
    /\ node_mappings = << >>
    /\ ~nlp[1].ode_solver.is_direct_collocation

\* C7: for a single phase without node mapping and without direct collocation,
\* n_all_x == nx * (ns + 1), n_all_u == nu * ns under CONSTANT and nu * (ns + 1)
\* under LINEAR_CONTINUOUS, and len(vector) == n_all_x + n_all_u + the total size
\* of the parameters.
C7_SinglePhaseCounts ==
    SinglePhasePlain =>
        LET me == nlp[1]
            nx == Shape(me.states)
            nu == Shape(me.controls)
        IN  /\ n_all_x = nx * (me.ns + 1)
            /\ me.control_type = "CONSTANT" => n_all_u = nu * me.ns
            /\ me.control_type = "LINEAR_CONTINUOUS" => n_all_u = nu * (me.ns + 1)
            /\ Len(Vector) = n_all_x + n_all_u + ParametersSize

\* two states of one row, two nodes, constant controls and a parameter of size 2:
\* 6 states, 2 controls and 10 entries in `vector`
C7_Witness ==
    /\ SinglePhasePlain
    /\ nlp[1].control_type = "CONSTANT"
    /\ nlp[1].ns = 2
    /\ Shape(nlp[1].states) = 2
    /\ n_all_x = 6 /\ n_all_u = 2
    /\ ParametersSize = 2
    /\ Len(Vector) = 10

\* the named blocks of a phase are the consecutive row ranges of "all" given by the
\* DOF counts of the elements, in declaration order
NamedRowRanges(result, elements, phase_idx) ==
    \A i \in 1..Len(elements) :
        LET before == SumSeq([j \in 1..(i - 1) |-> elements[j].n])
        IN  /\ elements[i].name \in DOMAIN At(result, phase_idx)
            /\ At(result, phase_idx)[elements[i].name]
                  = SubSeq(At(result, phase_idx)["all"], before + 1, before + elements[i].n)

\* C8: to_dictionaries is the inverse of `vector` for the phases that own their
\* variables: states[p]["all"][d, k] is the entry of data at the position where
\* `vector` holds the symbol of (phase p, node k, DOF d), each named block is its
\* consecutive row range of "all", and the same holds for the controls, read from
\* offset n_all_x.
C8_ToDictionariesInvertsVector ==
    (pc = "declared" /\ data # << >>) =>
        /\ err = "none"
        /\ \A p \in Phases :
             LET me == At(nlp, p)
             IN  /\ me.use_states_from_phase = p =>
                       /\ ReadsOwnSymbols(data_states, me.X_scaled, p, me.ns + 1,
                                          Shape(me.states))
                       /\ NamedRowRanges(data_states, me.states, p)
                 /\ me.use_controls_from_phase = p =>
                       /\ ReadsOwnSymbols(data_controls, me.U_scaled, p, ControlNodes(me),
                                          Shape(me.controls))
                       /\ NamedRowRanges(data_controls, me.controls, p)

\* C11: every entry that NodeMappingList.add registers has phase_pre < phase_post
\* strictly; after any sequence of add calls no registered entry has
\* phase_pre == phase_post or phase_pre > phase_post.
C11_ForwardOnly ==
    \A key \in DOMAIN node_mappings :
        node_mappings[key].phase_pre < node_mappings[key].phase_post

\* ========================================================== BiMappingList
\* an argument of BiMappingList.add / BiMapping.__init__: None, an index list or a Mapping
NoneArg == [kind |-> "None", map_idx |-> << >>, oppose |-> << >>]

ListArg(map_idx) == [kind |-> "list", map_idx |-> map_idx, oppose |-> << >>]

MappingArg(mapping) == [kind |-> "Mapping", map_idx |-> mapping.map_idx, oppose |-> mapping.oppose]

\* BiMapping.__init__: an index list is wrapped into a Mapping with the oppose
\* argument, a Mapping is kept as it is
AsMapping(arg, oppose_arg) ==
    IF arg.kind \in {"list", "tuple", "range"} THEN MappingInit(arg.map_idx, oppose_arg)
    ELSE [map_idx |-> arg.map_idx, oppose |-> arg.oppose]

\* the isinstance tests of BiMapping.__init__ (lines 147-155): the exception, or "none"
BiMappingInitError(to_second, to_first) ==
    IF to_second.kind \notin {"list", "tuple", "range", "Mapping"} THEN "RuntimeError: to_second"
    ELSE IF to_first.kind \notin {"list", "tuple", "range", "Mapping"} THEN "RuntimeError: to_first"
    ELSE "none"

\* the option object: OptionGeneric.__init__ keeps the phase and flags the option
\* automatic when no phase was given (phase == -1)
BiMappingInit(to_second, to_first, oppose_to_second, oppose_to_first, phase) ==
    [to_second |-> AsMapping(to_second, oppose_to_second),
     to_first |-> AsMapping(to_first, oppose_to_first),
     phase |-> phase,
     automatic_multiple_phase |-> (phase = NoneValue)]

\* OptionDict._add: the list of per-phase dictionaries grows to hold the phase,
\* phase -1 is the last dictionary; the option is stored under its key
OptionDictAdd(options, key, phase, option) ==
    LET grown == IF phase + 1 > Len(options)
                 THEN options \o [i \in 1..(phase + 1 - Len(options)) |-> << >>]
                 ELSE options
        at    == IF phase = NoneValue THEN Len(grown) ELSE phase + 1
    IN  [grown EXCEPT ![at] = (key :> option) @@ @]

\* a slip: a lone to_second or to_first passes the completeness test
BiMappingListAddErrorBothMissing(a) ==
    IF a.bimapping.kind = "BiMapping"
    THEN IF a.to_second.kind # "None" \/ a.to_first.kind # "None" THEN "ValueError"
         ELSE "none"
    ELSE IF a.to_second.kind = "None" /\ a.to_first.kind = "None" THEN "ValueError"
         ELSE "none"

\* BiMappingList.add (lines 192-215): the exception it ends with, or "none"
BiMappingListAddError(a) ==
    IF a.bimapping.kind = "BiMapping"
    THEN IF a.to_second.kind # "None" \/ a.to_first.kind # "None" THEN "ValueError"
         ELSE "none"
    ELSE IF a.to_second.kind = "None" \/ a.to_first.kind = "None" THEN "ValueError"
         ELSE "none"

\* the dictionaries after BiMappingList.add returned without an exception
BiMappingListAddResult(options, a) ==
    IF a.bimapping.kind = "BiMapping"
    THEN OptionDictAdd(options, a.name, a.phase,
            BiMappingInit(MappingArg(a.bimapping.to_second), MappingArg(a.bimapping.to_first),
                          a.oppose_to_second, a.oppose_to_first, a.phase))
    ELSE OptionDictAdd(options, a.name, a.phase,
            BiMappingInit(a.to_second, a.to_first, a.oppose_to_second, a.oppose_to_first,
                          a.phase))

\* self.add(name=key, bimapping=mappings[key], phase=i_phase) of line 225
FillAddArgs(key, bimapping, i_phase) ==
    [name |-> key, to_second |-> NoneArg, to_first |-> NoneArg,
     oppose_to_second |-> {}, oppose_to_first |-> {},
     bimapping |-> [kind |-> "BiMapping", to_second |-> bimapping.to_second,
                    to_first |-> bimapping.to_first],
     phase |-> i_phase]

\* the loop `for i_phase in range(n_phases)` (lines 221-225) for the key of the
\* dictionary at position at (from 1)
RECURSIVE FillKey(_, _, _, _, _)
FillKey(options, at, key, i_phase, n) ==
    IF i_phase >= n THEN options
    ELSE IF i_phase = 0
    THEN FillKey([options EXCEPT ![at][key].phase = 0], at, key, 1, n)
    ELSE FillKey(BiMappingListAddResult(options, FillAddArgs(key, options[at][key], i_phase)),
                 at, key, i_phase + 1, n)

\* the loop `for key in mappings` (lines 219-220); the keys of the dictionary do
\* not change while it runs
RECURSIVE FillKeys(_, _, _, _)
FillKeys(options, at, keys, n) ==
    IF keys = {} THEN options
    ELSE LET key == CHOOSE k \in keys : TRUE
         IN  FillKeys(IF options[at][key].automatic_multiple_phase
                      THEN FillKey(options, at, key, 0, n) ELSE options,
                      at, keys \ {key}, n)

\* variable_mapping_fill_phases (lines 217-226): the loop over self.options also
\* visits the dictionaries appended while it runs
RECURSIVE FillPhases(_, _, _)
FillPhases(options, at, n) ==
    IF at > Len(options) THEN options
    ELSE FillPhases(FillKeys(options, at, DOMAIN options[at], n), at + 1, n)

SwapMapping == MappingInit(<<1, 0>>, {0})

ToSecondArgs == {NoneArg, ListArg(<<0, 1>>), ListArg(<<1, 0>>), MappingArg(SwapMapping)}

ToFirstArgs == {NoneArg, ListArg(<<0, 1>>)}

BiMappingArgs ==
    {[kind |-> "None", to_second |-> << >>, to_first |-> << >>],
     [kind |-> "BiMapping", to_second |-> MappingInit(<<0, 1>>, {}),
      to_first |-> MappingInit(<<0, 1>>, {})],
     [kind |-> "BiMapping", to_second |-> SwapMapping, to_first |-> SwapMapping]}

BiMappingListAddArgs ==
    [name : {"q", "tau"}, to_second : ToSecondArgs, to_first : ToFirstArgs,
     oppose_to_second : {{}}, oppose_to_first : {{}},
     bimapping : BiMappingArgs, phase : PhaseArgs]

InitBiMapping ==
    /\ pc = "bimapping"
    /\ err = "none"
    /\ bimappings = << << >> >> /\ views = << >> /\ phase_time = << >>
    /\ add_args = << >>
    /\ n_adds = 0 /\ ran = {}
    /\ node_mappings = << >>
    /\ nlp = << >> /\ x_scaled = << >> /\ u_scaled = << >>
    /\ n_phase_x = << >> /\ n_phase_u = << >> /\ n_all_x = 0 /\ n_all_u = 0
    /\ x_bounds = << >> /\ u_bounds = << >> /\ x_init = << >> /\ u_init = << >>
    /\ parameters_in_list = << >>
    /\ data = << >> /\ data_states = << >> /\ data_controls = << >>
    /\ data_parameters = << >> /\ map_in = << >> /\ mapped_obj = << >>

\* BiMappingList.add (lines 164-215)
BiMappingListAdd ==
    /\ pc = "bimapping"
    /\ ran = {}
    /\ n_adds < MaxAdds
    /\ \E a \in BiMappingListAddArgs :
         /\ add_args' = a
         /\ err' = BiMappingListAddError(a)
         /\ bimappings' = IF BiMappingListAddError(a) = "none"
                          THEN BiMappingListAddResult(bimappings, a) ELSE bimappings
    /\ n_adds' = n_adds + 1
    /\ UNCHANGED <<pc, ran, nlp, node_mappings, x_scaled, u_scaled, n_phase_x, n_phase_u,
                   n_all_x, n_all_u, x_bounds, u_bounds, x_init, u_init, parameters_in_list,
                   data, data_states, data_controls, data_parameters, map_in, mapped_obj,
                   views, phase_time>>

\* variable_mapping_fill_phases (lines 217-226), called once and then once more with
\* the same number of phases
VariableMappingFillPhases ==
    /\ pc = "bimapping"
    /\ "filled_twice" \notin ran
    /\ \E n \in 1..(MaxPhases + 1) :
         /\ ran # {} => n = add_args.n_phases
         /\ add_args' = [n_phases |-> n]
         /\ bimappings' = FillPhases(bimappings, 1, n)
    /\ ran' = IF ran = {} THEN {"filled"} ELSE {"filled", "filled_twice"}
    /\ err' = "none"
    /\ UNCHANGED <<pc, n_adds, nlp, node_mappings, x_scaled, u_scaled, n_phase_x, n_phase_u,
                   n_all_x, n_all_u, x_bounds, u_bounds, x_init, u_init, parameters_in_list,
                   data, data_states, data_controls, data_parameters, map_in, mapped_obj,
                   views, phase_time>>

NextBiMapping == BiMappingListAdd \/ VariableMappingFillPhases

SpecBiMapping == InitBiMapping /\ [][NextBiMapping]_vars

\* --------------------------------------- lists that mix automatic and phase-bound entries
\* the complete BiMappings handed to add, for any phase or for one of the phases
\* 0..MaxPhases
FillProblemAdds ==
    { [name |-> name, to_second |-> NoneArg, to_first |-> NoneArg,
       oppose_to_second |-> {}, oppose_to_first |-> {}, bimapping |-> bimapping,
       phase |-> phase] :
        name \in {"q", "tau"}, bimapping \in BiMappingArgs \ {[kind |-> "None", to_second |-> << >>, to_first |-> << >>]},
        phase \in {NoneValue} \cup (0..MaxPhases) }

\* the dictionaries after the accepted add calls of a list of arguments, in its order
RECURSIVE BiMappingListAddAll(_, _)
BiMappingListAddAll(options, adds) ==
    IF Len(adds) = 0 THEN options
    ELSE BiMappingListAddAll(BiMappingListAddResult(options, Head(adds)), Tail(adds))

InitFillPhases ==
    /\ pc = "bimapping"
    /\ err = "none"
    /\ \E k \in 1..MaxFillAdds : \E adds \in [1..k -> FillProblemAdds] :
            bimappings = BiMappingListAddAll(<< << >> >>, adds)
    /\ views = << >> /\ phase_time = << >>
    /\ add_args = << >>
    /\ n_adds = 0 /\ ran = {}
    /\ node_mappings = << >>
    /\ nlp = << >> /\ x_scaled = << >> /\ u_scaled = << >>
    /\ n_phase_x = << >> /\ n_phase_u = << >> /\ n_all_x = 0 /\ n_all_u = 0
    /\ x_bounds = << >> /\ u_bounds = << >> /\ x_init = << >> /\ u_init = << >>
    /\ parameters_in_list = << >>
    /\ data = << >> /\ data_states = << >> /\ data_controls = << >>
    /\ data_parameters = << >> /\ map_in = << >> /\ mapped_obj = << >>

NextFillPhases == VariableMappingFillPhases

SpecFillPhases == InitFillPhases /\ [][NextFillPhases]_vars

\* the forms BiMappingList.add was given
GivenBiMapping(a) == a.bimapping.kind = "BiMapping"

GivenPair(a) == a.to_second.kind # "None" /\ a.to_first.kind # "None"

ExactlyOneForm(a) ==
    \/ GivenBiMapping(a) /\ a.to_second.kind = "None" /\ a.to_first.kind = "None"
    \/ ~GivenBiMapping(a) /\ GivenPair(a)

\* the index lists the call asked to register
AskedToSecond(a) ==
    IF GivenBiMapping(a) THEN a.bimapping.to_second.map_idx ELSE a.to_second.map_idx

AskedToFirst(a) ==
    IF GivenBiMapping(a) THEN a.bimapping.to_first.map_idx ELSE a.to_first.map_idx

\* the name is registered with the asked index lists, in the dictionary of the
\* given phase when a phase was given
RegisteredAsAsked(a) ==
    \E at \in 1..Len(bimappings) :
        /\ a.phase # NoneValue => at = a.phase + 1
        /\ a.name \in DOMAIN bimappings[at]
        /\ bimappings[at][a.name].phase = a.phase
        /\ bimappings[at][a.name].to_second.map_idx = AskedToSecond(a)
        /\ bimappings[at][a.name].to_first.map_idx = AskedToFirst(a)

SameMappings(a, b) ==
    /\ Len(a) = Len(b)
    /\ \A i \in 1..Len(a) :
         /\ DOMAIN a[i] = DOMAIN b[i]
         /\ \A key \in DOMAIN a[i] :
              /\ a[i][key].to_second = b[i][key].to_second
              /\ a[i][key].to_first = b[i][key].to_first

\* every name flagged automatic in phase 0 has a copy in each phase 1..n-1
AutomaticCopied(n) ==
    \A key \in DOMAIN bimappings[1] :
        bimappings[1][key].automatic_multiple_phase =>
            \A i_phase \in 1..(n - 1) :
                /\ Len(bimappings) > i_phase
                /\ key \in DOMAIN bimappings[i_phase + 1]
                /\ bimappings[i_phase + 1][key].to_second = bimappings[1][key].to_second
                /\ bimappings[i_phase + 1][key].to_first = bimappings[1][key].to_first

ParameterProblemMappings(n, nb_q) ==
    IF n = 1 THEN {<< >>}
    ELSE {<< >>} \cup { Register(<< >>, NodeMappingArgs("q", 0, n - 1, index,
                                                       RangeList(0, nb_q))) :
                        index \in {RangeList(0, nb_q), <<0>>} }

InitParameters ==
    /\ pc = "constructed"
    /\ \E n \in {1, MaxPhases}, nb_q \in {1, MaxRows},
          control_type \in {"CONSTANT", "LINEAR_CONTINUOUS"} :
            /\ nlp = [p \in 1..n |-> NewNlp(p - 1, 1, nb_q, 1, control_type, 0)]
            /\ node_mappings \in ParameterProblemMappings(n, nb_q)
    /\ InitRest

\* one read of each of the properties `vector`, `bounds` and `init`
ReadViews ==
    /\ pc = "declared"
    /\ views' = [vector |-> Vector, bounds_min |-> BoundsMin, bounds_max |-> BoundsMax,
                 init |-> InitInit]
    /\ UNCHANGED <<pc, err, ran, nlp, node_mappings, x_scaled, u_scaled, n_phase_x,
                   n_phase_u, n_all_x, n_all_u, x_bounds, u_bounds, x_init, u_init,
                   parameters_in_list, n_adds, data, data_states, data_controls,
                   data_parameters, add_args, map_in, mapped_obj, bimappings,
                   phase_time>>

NextParameters ==
    \/ GetVariableFromPhaseIdx
    \/ DefineOcpShootingPoints
    \/ AddParameter
    \/ ReadViews

SpecParameters == InitParameters /\ [][NextParameters]_vars

\* ---------------------------------------------------------------- C14
HasName(pool, name) == \E i \in 1..Len(pool) : pool[i].name = name

EntriesNamed(pool, name) == {i \in 1..Len(pool) : pool[i].name = name}

\* the entry of the pool that holds `name` grew by `param`, appended behind what it held
GrownBy(before, after, param) ==
    /\ after.name = before.name /\ after.function = before.function
    /\ after.size = before.size + param.size
    /\ after.cx = before.cx \o param.cx
    /\ after.scaling = before.scaling \o param.scaling
    /\ after.bounds = before.bounds \o param.bounds
    /\ after.initial_guess = before.initial_guess \o param.initial_guess

AddParameterMerges ==
    LET pool == parameters_in_list
        param == add_args'
        i == PoolIndex(pool, param.name)
    IN  (n_adds' = n_adds + 1 /\ HasName(pool, param.name)) =>
            IF pool[i].function = param.function /\ pool[i].params = param.params
            THEN /\ err' = "none"
                 /\ Len(parameters_in_list') = Len(pool)
                 /\ Cardinality(EntriesNamed(parameters_in_list', param.name)) = 1
                 /\ GrownBy(pool[i], parameters_in_list'[i], param)
                 /\ \A j \in 1..Len(pool) : j # i => parameters_in_list'[j] = pool[j]
            ELSE pool[i].function # param.function =>
                    /\ err' = "RuntimeError: function"
                    /\ Cardinality(EntriesNamed(parameters_in_list', param.name)) = 1

\* C14: add_parameter merges by name: a Parameter added under a name the pool already
\* holds, with the same function and params, leaves one entry for that name whose size
\* is the sum and whose symbols, scaling, bounds and initial guess are the
\* concatenation in addition order; with a different function the call raises
C14_AddParameterMerges == [][AddParameterMerges]_vars

\* two additions under one name were merged, the first call's symbols ahead
C14_Witness ==
    /\ n_adds = 2 /\ err = "none" /\ Len(parameters_in_list) = 1
    /\ parameters_in_list[1].size = 1 + MaxParamSize
    /\ parameters_in_list[1].cx[1][3] = 0
    /\ parameters_in_list[1].cx[1 + MaxParamSize][3] = 1
    /\ parameters_in_list[1].bounds[1 + MaxParamSize][3] = 1

\* ---------------------------------------------------------------- C15
\* the number of rows the pool entries ahead of entry i take
SizesBefore(pool, i) == SumSeq([j \in 1..(i - 1) |-> pool[j].size])

\* `view` ends with the rows `field` of every pool entry, in pool order
EndsWithPool(view, field) ==
    LET pool == parameters_in_list
        start == Len(view) - ParametersSize
    IN  /\ start >= 0
        /\ \A i \in 1..Len(pool) :
              /\ Len(pool[i][field]) = pool[i].size
              /\ \A j \in 1..pool[i].size :
                    view[start + SizesBefore(pool, i) + j] = pool[i][field][j]

TailsFollowPool(read) ==
    /\ EndsWithPool(read.vector, "cx")
    /\ EndsWithPool(read.bounds_min, "bounds")
    /\ EndsWithPool(read.bounds_max, "bounds")
    /\ EndsWithPool(read.init, "initial_guess")

ReadLeavesFields ==
    UNCHANGED <<nlp, node_mappings, x_scaled, u_scaled, n_phase_x, n_phase_u, n_all_x,
                n_all_u, x_bounds, u_bounds, x_init, u_init, parameters_in_list>>

\* C15: vector, bounds and init are derived on every read: a read changes no field,
\* and while every add_parameter call has succeeded the three views end with the
\* symbols, bounds and initial guesses of the pool entries in pool order, each tail
\* as long as the sum of the pool entries' sizes
C15_ViewsFollowPool ==
    [][(views' # views) =>
            /\ ReadLeavesFields
            /\ ("add_parameter raised" \notin ran) => TailsFollowPool(views')]_vars

\* a read after two successful additions under two names
C15_Witness ==
    /\ views # << >> /\ "add_parameter raised" \notin ran
    /\ Len(parameters_in_list) = 2 /\ ParametersSize = 1 + MaxParamSize
    /\ Len(views.vector) > ParametersSize
    /\ TailsFollowPool(views)

\* ============================== node mappings of several phases on one target
\* problems of up to MaxTargetPhases phases whose node mapping list holds the entries
\* of one or two accepted add calls, each from a phase to a later one
ForwardMappingChoices(n) ==
    { NodeMappingArgs(name, pre, post, index, RangeList(0, MaxRows)) :
        name \in {"q", "tau"}, pre \in 0..(n - 1), post \in 0..(n - 1),
        index \in IndexChoices(MaxRows) }

InitNodeMappingIndex ==
    /\ pc = "constructed"
    /\ \E n \in 2..MaxTargetPhases :
         /\ nlp = [p \in 1..n |-> NewNlp(p - 1, 1, MaxRows, 1, "CONSTANT", 0)]
         /\ \E a, b \in ForwardMappingChoices(n) :
              /\ AddError(a) = "none" /\ AddError(b) = "none"
              /\ a.phase_pre < a.phase_post /\ b.phase_pre < b.phase_post
              /\ node_mappings = Register(Register(<< >>, a), b)
    /\ InitRest

NextNodeMappingIndex == GetVariableFromPhaseIdx

SpecNodeMappingIndex == InitNodeMappingIndex /\ [][NextNodeMappingIndex]_vars

\* ---------------------------------------------------------------- C16
\* the record the entry registered under `key` is to leave in dictionary `field` of
\* its target phase
RecordOfEntry(key, field) ==
    LET entry == node_mappings[key]
        dict == At(nlp, entry.phase_post)[field]
    IN  /\ key[2] \in DOMAIN dict
        /\ dict[key[2]].phase = entry.phase_pre
        /\ dict[key[2]].index = entry.index
        /\ dict[key[2]].variable_mapped_index =
              [j \in 1..Len(entry.index) |->
                  At(entry.variable_mapping.to_second.map_idx, entry.index[j])]

Targeted(phase_idx, controls) ==
    \E key \in DOMAIN node_mappings :
        /\ node_mappings[key].phase_post = phase_idx
        /\ IF controls THEN node_mappings[key].map_controls ELSE node_mappings[key].map_states

\* C16: after get_variable_from_phase_idx every registered node-mapping entry with
\* name v has, under key v in the dictionaries of its phase_post (states and
\* states_dot when it maps states, controls when it maps controls), a record with
\* phase = phase_pre, its index list and variable_mapped_index =
\* [to_second.map_idx[j] for j in index]; a phase no entry targets has empty dictionaries
C16_EveryEntryHasItsRecord ==
    (pc = "mapped") =>
        /\ \A key \in DOMAIN node_mappings :
              /\ node_mappings[key].map_states =>
                    /\ RecordOfEntry(key, "states_phase_mapping_idx")
                    /\ RecordOfEntry(key, "states_dot_phase_mapping_idx")
              /\ node_mappings[key].map_controls =>
                    RecordOfEntry(key, "controls_phase_mapping_idx")
        /\ \A p \in 1..n_phases :
              /\ ~Targeted(p - 1, FALSE) =>
                    /\ nlp[p].states_phase_mapping_idx = << >>
                    /\ nlp[p].states_dot_phase_mapping_idx = << >>
              /\ ~Targeted(p - 1, TRUE) => nlp[p].controls_phase_mapping_idx = << >>

\* ============================= OptimizationVector: extract_phase_time
\* a number, and the symbol nlp.tf of a phase whose duration is optimized
Value(v) == <<"value", v>>

SymbolicTf(phase_idx) == <<"tf", phase_idx>>

\* the loop of lines 268-272: the rows of "time" in data, [] when the pool has no "time"
RECURSIVE DataTimeOptimized(_, _, _)
DataTimeOptimized(v_array, i, offset) ==
    IF i > Len(parameters_in_list) THEN << >>
    ELSE IF parameters_in_list[i].name = "time"
    THEN Slice(v_array, offset, offset + parameters_in_list[i].size)
    ELSE DataTimeOptimized(v_array, i + 1, offset + parameters_in_list[i].size)

\* the loop of lines 276-280 from entry i of phase_time on
RECURSIVE ReplacePhaseTime(_, _, _, _, _)
ReplacePhaseTime(phase_time_, data_time_optimized, map_idx, i, cmp) ==
    IF i >= Len(phase_time_) THEN [phase_time |-> phase_time_, err |-> "none"]
    ELSE IF At(phase_time_, i)[1] # "tf"
    THEN ReplacePhaseTime(phase_time_, data_time_optimized, map_idx, i + 1, cmp)
    ELSE IF cmp >= Len(map_idx) \/ At(map_idx, cmp) >= Len(data_time_optimized)
    THEN [phase_time |-> phase_time_, err |-> "IndexError"]
    ELSE ReplacePhaseTime(
            [phase_time_ EXCEPT ![i + 1] = Value(At(data_time_optimized, At(map_idx, cmp)))],
            data_time_optimized, map_idx, i + 1, cmp + 1)

\* extract_phase_time (lines 251-281); tf holds nlp.tf of every phase and map_idx is
\* ocp.parameter_mappings["time"].to_second.map_idx
ExtractPhaseTimeResult(v_array, tf, map_idx) ==
    LET data_time_optimized == DataTimeOptimized(v_array, 1, n_all_x + n_all_u)
        phase_time_ == <<Value(0)>> \o tf
    IN  IF Len(data_time_optimized) > 0
        THEN ReplacePhaseTime(phase_time_, data_time_optimized, map_idx, 0, 0)
        ELSE [phase_time |-> phase_time_, err |-> "none"]

\* nlp.tf of the phases: a number, or a symbol for a duration that is optimized
TfChoices == [1..n_phases -> {"number", "symbol"}]

Tf(choice) ==
    [p \in 1..n_phases |-> IF choice[p] = "symbol" THEN SymbolicTf(p - 1) ELSE Value(p)]

NumberOfSymbolic(choice) == Cardinality({p \in 1..n_phases : choice[p] = "symbol"})

\* to_second.map_idx of the mapping of "time": one row of the parameter per
\* optimized duration; no mapping is read unless the pool holds "time"
TimeMapIdxChoices(choice) ==
    IF \E i \in 1..Len(parameters_in_list) : parameters_in_list[i].name = "time"
    THEN [1..NumberOfSymbolic(choice) ->
            0..(parameters_in_list[PoolIndex(parameters_in_list, "time")].size - 1)]
    ELSE {<< >>}

ExtractPhaseTime ==
    /\ pc = "declared"
    /\ \E b \in 0..MaxDataBase, choice \in TfChoices :
         \E map_idx \in TimeMapIdxChoices(choice) :
            LET v_array == [i \in 1..Len(Vector) |-> b + i]
                r == ExtractPhaseTimeResult(v_array, Tf(choice), map_idx)
            IN  /\ phase_time' = [data |-> v_array, tf |-> Tf(choice), map_idx |-> map_idx,
                                  result |-> r.phase_time]
                /\ err' = r.err
    /\ UNCHANGED <<pc, ran, nlp, node_mappings, x_scaled, u_scaled, n_phase_x, n_phase_u,
                   n_all_x, n_all_u, x_bounds, u_bounds, x_init, u_init,
                   parameters_in_list, n_adds, data, data_states, data_controls,
                   data_parameters, add_args, map_in, mapped_obj, bimappings, views>>

NextPhaseTime ==
    \/ GetVariableFromPhaseIdx
    \/ DefineOcpShootingPoints
    \/ AddParameter
    \/ ExtractPhaseTime

SpecPhaseTime == InitParameters /\ [][NextPhaseTime]_vars

NextSolution ==
    \/ GetVariableFromPhaseIdx
    \/ DefineOcpShootingPoints
    \/ AddParameter
    \/ ToDictionaries

SpecSolution == InitParameters /\ [][NextSolution]_vars

\* ---------------------------------------------------------------- C17
\* the number of optimized durations among the phases before phase_idx
SymbolicBefore(tf, phase_idx) == Cardinality({p \in 1..phase_idx : tf[p][1] = "tf"})

TimeValues(call) ==
    LET pool == parameters_in_list
        i == PoolIndex(pool, "time")
        off == n_all_x + n_all_u + SizesBefore(pool, i)
    IN  Slice(call.data, off, off + pool[i].size)

DurationReplaced(call, p) ==
    LET row == At(call.map_idx, SymbolicBefore(call.tf, p - 1))
    IN  /\ row < Len(TimeValues(call))
        /\ call.result[p + 1] = Value(At(TimeValues(call), row))

ExtractedPhaseTime(call) ==
    /\ err' = "none"
    /\ Len(call.result) = n_phases + 1
    /\ call.result[1] = Value(0)
    /\ \A p \in 1..n_phases :
          IF call.tf[p][1] = "tf" /\ HasName(parameters_in_list, "time")
          THEN DurationReplaced(call, p)
          ELSE call.result[p + 1] = call.tf[p]

\* C17: extract_phase_time(data) returns [0] followed by one duration per phase; with
\* a parameter "time" in the pool, whose values are data[off : off + size] for
\* off = n_all_x + n_all_u + the sizes of the pool entries ahead of it, the i-th
\* optimized duration is time_values[to_second.map_idx[i]] and the numeric ones are
\* unchanged; without "time" every duration is returned unchanged
C17_ExtractPhaseTime ==
    [][(phase_time' # phase_time) => ExtractedPhaseTime(phase_time')]_vars

\* ---------------------------------------------------------------- C18
\* the slice of pool entry i: the rows of read_data after the states, the controls
\* and the pool entries ahead of it, each with the scaling of its row
ParameterSliceRead(read_data, read_parameters, i) ==
    LET pool == parameters_in_list
        start == n_all_x + n_all_u + SizesBefore(pool, i)
    IN  /\ pool[i].name \in DOMAIN read_parameters
        /\ Len(read_parameters[pool[i].name]) = pool[i].size
        /\ start + pool[i].size <= Len(read_data)
        /\ \A j \in 1..Len(read_parameters[pool[i].name]) :
              /\ read_parameters[pool[i].name][j].value = read_data[start + j]
              /\ read_parameters[pool[i].name][j].scaling = pool[i].scaling[j]

ParametersReadFromTail(read_data, read_parameters) ==
    /\ err' = "none"
    /\ \A i \in 1..Len(parameters_in_list) :
          ParameterSliceRead(read_data, read_parameters, i)
    /\ n_all_x + n_all_u + ParametersSize = Len(read_data)

\* C18: to_dictionaries reads the parameters from the tail of data: the slices of the
\* pool entries start at n_all_x + n_all_u, follow each other in pool order without
\* gap or overlap, each as long as its entry's size and multiplied by its entry's
\* scaling, and for data as long as vector they cover data[n_all_x + n_all_u:] exactly
C18_ParametersFromTail ==
    [][(<<data, data_parameters>>' # <<data, data_parameters>> /\ parameters_in_list # << >>)
            => ParametersReadFromTail(data', data_parameters')]_vars

\* ---------------------------------------------------------------- C19
NothingAllocated(p) ==
    /\ nlp[p].X_scaled = << >> /\ nlp[p].X = << >>
    /\ nlp[p].U_scaled = << >> /\ nlp[p].U = << >>
    /\ x_scaled[p] = << >> /\ u_scaled[p] = << >>

ControlsAllocated(p) ==
    \A k \in 0..nlp[p].ns :
        Len(At(nlp[p].U_scaled, k)) =
            IF nlp[p].control_type = "CONSTANT" /\ k = nlp[p].ns THEN 0
            ELSE Shape(nlp[p].controls)

\* C19: define_ocp_shooting_points raises a not-implemented error for a phase whose
\* control type is neither CONSTANT nor LINEAR_CONTINUOUS, before it allocates any
\* state or control symbol of that phase; for CONSTANT it allocates the controls of
\* every node but the last one, for LINEAR_CONTINUOUS those of every node 0..ns
C19_ControlTypes ==
    (pc \in {"declared", "failed"}) =>
        \A p \in 1..n_phases :
            IF nlp[p].control_type \in {"CONSTANT", "LINEAR_CONTINUOUS"}
            THEN pc = "declared" /\ ControlsAllocated(p)
            ELSE pc = "failed" /\ err = "NotImplementedError" /\ NothingAllocated(p)

\* the declaration of a phase of another control type has raised
C19_Witness ==
    /\ pc = "failed" /\ err = "NotImplementedError"
    /\ nlp[1].control_type = "NONE" /\ NothingAllocated(1)

\* ---------------------------------------------------------------- C20
\* states ahead of controls ahead of parameters
BlockOf(sym) == IF sym[1] = "X" THEN 0 ELSE IF sym[1] = "U" THEN 1 ELSE 2

\* symbol a is of an earlier phase than b, or of an earlier node of the same phase,
\* or of an earlier point or a lower DOF of the same node
AheadOf(a, b) ==
    \/ a[2] < b[2]
    \/ a[2] = b[2] /\ a[3] < b[3]
    \/ a[2] = b[2] /\ a[3] = b[3] /\ a[5] < b[5]
    \/ a[2] = b[2] /\ a[3] = b[3] /\ a[5] = b[5] /\ a[4] < b[4]

InVectorOrder(read) ==
    \A i, j \in 1..Len(read) :
        i < j => /\ BlockOf(read[i]) <= BlockOf(read[j])
                 /\ (BlockOf(read[i]) = BlockOf(read[j]) /\ BlockOf(read[i]) < 2)
                        => AheadOf(read[i], read[j])

\* the entries of a block are the symbols the phases allocated themselves, all of them
OwnSymbolsOnly(read) ==
    /\ {read[i] : i \in {j \in 1..Len(read) : read[j][1] = "X"}}
            = UNION {AllocatedStates(p) : p \in Phases}
    /\ {read[i] : i \in {j \in 1..Len(read) : read[j][1] = "U"}}
            = UNION {AllocatedControls(p) : p \in Phases}

\* C20: vector holds the state entries of phase 0, then of phase 1 and so on, within
\* a phase node by node and within a node by increasing DOF, then the control entries
\* in the same order, then the parameter block; a phase that aliases another
\* contributes only the DOFs it allocated itself, in the same relative order
C20_VectorOrder ==
    (pc = "declared") =>
        LET read == Vector
        IN  /\ InVectorOrder(read)
            /\ OwnSymbolsOnly(read)
            /\ EndsWithPool(read, "cx")

\* ---------------------------------------------------------------- C21
\* the first row of element i among the rows of its phase
ElementStart(elements, i) == SumSeq([j \in 1..(i - 1) |-> elements[j].n])

\* the rows of the phase that are to be its own unknowns: every row of an element
\* without node-mapping entry, and the rows of a mapped element its index list leaves out
RowsToAllocate(elements, phase_mapping_idx) ==
    UNION { LET start == ElementStart(elements, i)
                rows == {start + d : d \in 0..(elements[i].n - 1)}
            IN  IF elements[i].name \in DOMAIN phase_mapping_idx
                THEN {r \in rows : ~InList(r - start, phase_mapping_idx[elements[i].name].index)}
                ELSE rows
            : i \in 1..Len(elements) }

\* some element of the phase is mapped and another one has no node-mapping entry
MixedPhase(elements, phase_mapping_idx) ==
    /\ \E i \in 1..Len(elements) : elements[i].name \in DOMAIN phase_mapping_idx
    /\ \E i \in 1..Len(elements) : elements[i].name \notin DOMAIN phase_mapping_idx

FreshAtEveryNode(lists, phase_idx, rows, ns) ==
    LET v == Vector
    IN  \A r \in rows : \A k \in 0..ns :
            /\ k < Len(lists) /\ r < Len(At(lists, k))
            /\ \A c \in 1..Len(At(At(lists, k), r)) :
                  /\ At(At(lists, k), r)[c][2] = phase_idx
                  /\ \E i \in 1..Len(v) : v[i] = At(At(lists, k), r)[c]

\* C21: in a phase where one state element is aliased by a node mapping and another
\* has no node-mapping entry, every DOF of the unmapped element and every DOF of the
\* mapped element outside its index list gets a fresh symbol of the phase at every
\* node, is counted in n_phase_x and is emitted by `vector`
C21_UnmappedRowsAreFresh ==
    (pc = "declared" /\ MapsOnEarlierPhase) =>
        \A p \in Phases :
            LET me == At(nlp, p)
                mapping == [name \in DOMAIN me.states_phase_mapping_idx \ {"all"} |->
                                me.states_phase_mapping_idx[name]]
                rows == RowsToAllocate(me.states, mapping)
            IN  (MixedPhase(me.states, mapping) /\ ~me.ode_solver.is_direct_collocation) =>
                    /\ FreshAtEveryNode(me.X_scaled, p, rows, me.ns)
                    /\ At(n_phase_x, p) = Cardinality(rows) * (me.ns + 1)

\* ---------------------------------------------------------------- C22
\* the nodes of a phase that hold controls
NodesWithControls(me) == {k \in 0..me.ns : ControlNode(me.control_type, k, me.ns)}

\* every read of the aliasing phase post finds its entry in the lists of phase pre
ReadsHitAllocated(post, pre, rows, post_nodes, pre_nodes, pre_shape) ==
    rows # {} =>
        /\ pre < post
        /\ post_nodes \subseteq pre_nodes
        /\ \A liberty \in rows : liberty < pre_shape

AliasedRowsRead(me, phase_mapping_idx, shape) ==
    IF "all" \in DOMAIN phase_mapping_idx
    THEN {l \in 0..(shape - 1) : InList(l, phase_mapping_idx["all"].variable_mapped_index)}
    ELSE {}

\* C22: one forward pass over the phases suffices: whatever node mappings add has
\* accepted, every read of a source phase's symbol at (node k, DOF d) by an aliasing
\* phase finds an entry already allocated, never an unpopulated phase, a node the
\* source phase does not have or a control its last node does not hold
C22_ForwardPassSuffices ==
    (pc \in {"declared", "failed"}) =>
        /\ err # "IndexError"
        /\ \A p \in Phases :
              LET me == At(nlp, p)
              IN  /\ (me.use_states_from_phase \notin {NoneValue, p}) =>
                        LET pre == At(nlp, me.use_states_from_phase)
                        IN  ReadsHitAllocated(p, me.use_states_from_phase,
                                AliasedRowsRead(me, me.states_phase_mapping_idx, Shape(me.states)),
                                0..me.ns, 0..pre.ns, Shape(pre.states))
                  /\ (me.use_controls_from_phase \notin {NoneValue, p}) =>
                        LET pre == At(nlp, me.use_controls_from_phase)
                        IN  ReadsHitAllocated(p, me.use_controls_from_phase,
                                AliasedRowsRead(me, me.controls_phase_mapping_idx, Shape(me.controls)),
                                NodesWithControls(me), NodesWithControls(pre),
                                Shape(pre.controls))

\* ---------------------------------------------------------------- C23
\* Mapping.__len__ (lines 100-109)
MappingLen(self) == Len(self.map_idx)

\* C23: for every input the constructor Mapping(map_idx, oppose) accepts,
\* len(mapping) == len(map_idx) == len(mapping.oppose), every entry of oppose is +1
\* or -1, and it is -1 exactly at the positions listed in the oppose argument
C23_OpposeSigns ==
    (pc \in {"map_ready", "map_done"}) =>
        LET self == map_in.self
        IN  /\ MappingLen(self) = Len(self.map_idx)
            /\ MappingLen(self) = Len(self.oppose)
            /\ \A i \in 0..(Len(self.oppose) - 1) :
                  /\ At(self.oppose, i) \in {0 - 1, 1}
                  /\ (At(self.oppose, i) = 0 - 1) <=> (i \in map_in.oppose_arg)

\* a mapping of three rows built with oppose = [0, 2]
C23_Witness ==
    /\ pc = "map_ready"
    /\ Len(map_in.self.map_idx) = 3
    /\ map_in.oppose_arg = {0, 2}
    /\ map_in.self.oppose = <<0 - 1, 1, 0 - 1>>

\* ================================================== BiMapping construction
\* an argument of another type: its kind and, for a sequence, its entries
OtherArg(kind, map_idx) == [kind |-> kind, map_idx |-> map_idx, oppose |-> << >>]

\* what a caller may pass as to_second or to_first: index sequences of the built-in
\* types, a Mapping, a NumPy index array, an int, None
BiMappingInitArgs ==
    {ListArg(<<0, 1>>), ListArg(<<1, 0>>), OtherArg("tuple", <<1, 0>>),
     OtherArg("range", <<0, 1>>), MappingArg(SwapMapping),
     OtherArg("ndarray", <<1, 0>>), OtherArg("int", << >>), NoneArg}

InitBiMappingInit ==
    /\ pc = "bimapping_init"
    /\ err = "none"
    /\ bimappings = << >> /\ views = << >> /\ phase_time = << >>
    /\ add_args = << >>
    /\ n_adds = 0 /\ ran = {}
    /\ node_mappings = << >>
    /\ nlp = << >> /\ x_scaled = << >> /\ u_scaled = << >>
    /\ n_phase_x = << >> /\ n_phase_u = << >> /\ n_all_x = 0 /\ n_all_u = 0
    /\ x_bounds = << >> /\ u_bounds = << >> /\ x_init = << >> /\ u_init = << >>
    /\ parameters_in_list = << >>
    /\ data = << >> /\ data_states = << >> /\ data_controls = << >>
    /\ data_parameters = << >> /\ map_in = << >> /\ mapped_obj = << >>

\* BiMapping.__init__ (lines 124-157); bimappings holds the object it built, if any
BiMappingConstruct ==
    /\ pc = "bimapping_init"
    /\ \E to_second \in BiMappingInitArgs, to_first \in BiMappingInitArgs,
          oppose_to_second \in {{}, {0}}, oppose_to_first \in {{}, {1}} :
         /\ add_args' = [to_second |-> to_second, to_first |-> to_first,
                         oppose_to_second |-> oppose_to_second,
                         oppose_to_first |-> oppose_to_first]
         /\ err' = BiMappingInitError(to_second, to_first)
         /\ bimappings' = IF BiMappingInitError(to_second, to_first) = "none"
                          THEN <<BiMappingInit(to_second, to_first, oppose_to_second,
                                               oppose_to_first, NoneValue)>>
                          ELSE << >>
    /\ UNCHANGED <<pc, n_adds, ran, nlp, node_mappings, x_scaled, u_scaled, n_phase_x,
                   n_phase_u, n_all_x, n_all_u, x_bounds, u_bounds, x_init, u_init,
                   parameters_in_list, data, data_states, data_controls, data_parameters,
                   map_in, mapped_obj, views, phase_time>>

NextBiMappingInit == BiMappingConstruct

SpecBiMappingInit == InitBiMappingInit /\ [][NextBiMappingInit]_vars

\* ---------------------------------------------------------------- C24
\* the values from which a Mapping can be built, and the Mappings themselves
MappingBuildable(arg) == arg.kind \in {"list", "tuple", "range", "ndarray", "Mapping"}

\* the Mapping the construction is to hold for an argument
MappingHeld(arg, oppose_arg) ==
    IF arg.kind = "Mapping" THEN [map_idx |-> arg.map_idx, oppose |-> arg.oppose]
    ELSE [map_idx |-> arg.map_idx,
          oppose |-> [i \in 1..Len(arg.map_idx) |-> IF (i - 1) \in oppose_arg THEN 0 - 1 ELSE 1]]

\* C24: BiMapping construction accepts for to_second and for to_first a raw index
\* sequence, wrapped into a Mapping with the matching oppose argument, or a Mapping,
\* kept as it is; it fails with a configuration error when one of them is neither,
\* and accepts every value from which a Mapping can be built, a NumPy index array included
C24_BiMappingAccepts ==
    (pc = "bimapping_init" /\ add_args # << >>) =>
        IF MappingBuildable(add_args.to_second) /\ MappingBuildable(add_args.to_first)
        THEN /\ err = "none"
             /\ Len(bimappings) = 1
             /\ bimappings[1].to_second
                    = MappingHeld(add_args.to_second, add_args.oppose_to_second)
             /\ bimappings[1].to_first
                    = MappingHeld(add_args.to_first, add_args.oppose_to_first)
        ELSE err \in {"RuntimeError: to_second", "RuntimeError: to_first"}

\* ---------------------------------------------------------------- C25
\* the lowest-numbered rule a call violates, 0 when it violates none:
\* (1) exactly one of map_states / map_controls, (2) both phases supplied,
\* (3) phase_pre <= phase_post, (4) variable_mapping None or a BiMappingList
FirstViolatedRule(a) ==
    IF a.map_states = a.map_controls THEN 1
    ELSE IF a.phase_pre = NoneValue \/ a.phase_post = NoneValue THEN 2
    ELSE IF a.phase_pre > a.phase_post THEN 3
    ELSE IF a.variable_mapping.kind \notin {"None", "BiMappingList"} THEN 4
    ELSE 0

\* the errors by which add reports the violation of a rule
ErrorsOfRule(rule) ==
    CASE rule = 1 -> {"Warning", "ValueError: both"}
      [] rule = 2 -> {"ValueError: phases"}
      [] rule = 3 -> {"ValueError: order"}
      [] rule = 4 -> {"ValueError: variable_mapping"}
      [] OTHER -> {}

\* the rules a call violates, whatever their number
ViolatedRules(a) ==
    (IF a.map_states = a.map_controls THEN {1} ELSE {})
    \cup (IF a.phase_pre = NoneValue \/ a.phase_post = NoneValue THEN {2} ELSE {})
    \cup (IF a.phase_pre # NoneValue /\ a.phase_post # NoneValue
             /\ a.phase_pre > a.phase_post THEN {3} ELSE {})
    \cup (IF a.variable_mapping.kind \notin {"None", "BiMappingList"} THEN {4} ELSE {})

\* C25: add validates in the order (1) flags, (2) phases supplied, (3) phase order,
\* (4) type of variable_mapping; a call that violates several rules ends with the
\* error of the lowest-numbered violated rule, and registers nothing
C25_AddValidationOrder ==
    [][NodeMappingListAdd =>
         (FirstViolatedRule(add_args') # 0 =>
              /\ err' \in ErrorsOfRule(FirstViolatedRule(add_args'))
              /\ node_mappings' = node_mappings)]_vars

\* a call that violated the phase order and the type rule ended with the order error
C25_Witness ==
    /\ pc = "node_mapping" /\ n_adds > 0
    /\ ViolatedRules(add_args) = {3, 4}
    /\ err = "ValueError: order"

\* ---------------------------------------------------------------- C26
\* the number of leading entries of a sequence of scalar symbols that are of a kind
RECURSIVE LeadingOfKind(_, _)
LeadingOfKind(symbols, kinds) ==
    IF symbols = << >> \/ Head(symbols)[1] \notin kinds THEN 0
    ELSE 1 + LeadingOfKind(Tail(symbols), kinds)

\* C26: after define_ocp_shooting_points n_phase_x[p] (n_phase_u[p]) is the number
\* of state (control) entries that `vector` emits for phase p, so n_all_x is the
\* position of the first control entry of `vector` and n_all_x + n_all_u that of the
\* first parameter entry; with no, some or all rows aliased and under collocation
C26_CountsMatchVector ==
    pc = "declared" =>
        LET emitted == Vector
        IN  /\ \A p \in 0..(n_phases - 1) :
                 /\ At(n_phase_x, p) = Len(VectorStatesOfPhase(p))
                 /\ At(n_phase_u, p) = Len(VectorControlsOfPhase(p))
            /\ n_all_x = LeadingOfKind(emitted, {"X"})
            /\ n_all_x + n_all_u = LeadingOfKind(emitted, {"X", "U"})

\* ============================================ add_parameter with extra params
\* the extra keyword arguments a Parameter may carry (Parameter(..., **params))
ParamExtras == {"none", "extra"}

InitParameterPool ==
    /\ pc = "constructed"
    /\ \E control_type \in {"CONSTANT", "LINEAR_CONTINUOUS"} :
         nlp = <<NewNlp(0, 1, 1, 1, control_type, 0)>>
    /\ node_mappings = << >>
    /\ InitRest

\* add_parameter (lines 694-723) on Parameters that differ in their extra params too
AddParameterWithParams ==
    /\ pc = "constructed"
    /\ n_adds < MaxParamAdds
    /\ \E name \in ParamNames, size \in ParamSizes, function \in ParamFunctions,
          params \in ParamExtras :
         LET r == AddParameterResult(parameters_in_list,
                                     NewParameter(name, size, function, params, n_adds))
         IN  /\ parameters_in_list' = r.pool
             /\ err' = r.err
             /\ add_args' = NewParameter(name, size, function, params, n_adds)
             /\ ran' = IF r.err = "none" THEN ran ELSE ran \cup {"add_parameter raised"}
    /\ n_adds' = n_adds + 1
    /\ UNCHANGED <<pc, nlp, node_mappings, x_scaled, u_scaled, n_phase_x, n_phase_u,
                   n_all_x, n_all_u, x_bounds, u_bounds, x_init, u_init, data,
                   data_states, data_controls, data_parameters, map_in,
                   mapped_obj, bimappings,
                   views, phase_time>>

NextParameterPool == AddParameterWithParams

SpecParameterPool == InitParameterPool /\ [][NextParameterPool]_vars

\* ---------------------------------------------------------------- C27
\* C27: when add_parameter rejects a Parameter whose name is already in the pool,
\* because its function or its params differ, the pool has the same entries and the
\* existing entry keeps its size, symbols, scaling, bounds and initial guess
C27_RejectionLeavesPool ==
    [][(AddParameterWithParams /\ err' # "none") =>
           parameters_in_list' = parameters_in_list]_vars

\* ---------------------------------------------------------------- C28
\* the state block of a phase of nx rows, ns nodes and degree d as the claim lays it
\* out: (node k, sub-point p, DOF j) at k*nx*(d+1) + p*nx + j, only sub-point 0 at
\* the last node, holding the bounds at point k, or at point 1 for p >= 1 of node 0
StateBlockLaidOut(block, tag, phase_idx, nx, ns, subpoints) ==
    /\ Len(block) = nx * (ns * subpoints + 1)
    /\ \A k \in 0..ns : \A p \in 0..(IF k = ns THEN 0 ELSE subpoints - 1) :
         \A j \in 0..(nx - 1) :
            At(block, k * nx * subpoints + p * nx + j)
                = <<tag, phase_idx, IF k = 0 /\ p >= 1 THEN 1 ELSE k, j>>

\* the control block: n_nodes nodes of nu rows, node k at k*nu .. (k+1)*nu - 1
ControlBlockLaidOut(block, tag, phase_idx, nu, n_nodes) ==
    /\ Len(block) = nu * n_nodes
    /\ \A k \in 0..(n_nodes - 1) : \A j \in 0..(nu - 1) :
         At(block, k * nu + j) = <<tag, phase_idx, k, j>>

BoundsLaidOut(phase_idx) ==
    LET me == At(nlp, phase_idx)
        nx == NxPhaseMapped(phase_idx)
        nu == NuPhaseMapped(phase_idx)
        collocation == me.ode_solver.is_direct_collocation
        degree == me.ode_solver.polynomial_degree
        subpoints == IF collocation THEN degree + 1 ELSE 1
        n_nodes == IF me.control_type = "CONSTANT" THEN me.ns ELSE me.ns + 1
    IN  /\ StateBlockLaidOut(At(x_bounds, phase_idx).min, "x_min", phase_idx, nx, me.ns,
                             subpoints)
        /\ StateBlockLaidOut(At(x_bounds, phase_idx).max, "x_max", phase_idx, nx, me.ns,
                             subpoints)
        /\ \A idx \in 0..(Len(At(x_bounds, phase_idx).min) - 1) :
             Cardinality(StateSpanWriters(idx, nx, me.ns, collocation, degree)) = 1
        /\ ControlBlockLaidOut(At(u_bounds, phase_idx).min, "u_min", phase_idx, nu, n_nodes)
        /\ ControlBlockLaidOut(At(u_bounds, phase_idx).max, "u_max", phase_idx, nu, n_nodes)

\* C28: define_ocp_bounds builds for a phase a state-bounds block of
\* nx*(ns*(d+1)+1) entries under direct collocation, nx*(ns+1) without, every entry
\* written exactly once, (node k, sub-point p, DOF j) at k*nx*(d+1) + p*nx + j with
\* the bounds of point k, the sub-points p >= 1 of node 0 with those of point 1; the
\* control block has nu*ns entries under CONSTANT and nu*(ns+1) under
\* LINEAR_CONTINUOUS, node k at k*nu .. (k+1)*nu - 1
C28_BoundsLayout ==
    ("define_ocp_bounds" \in ran) => \A p \in 0..(n_phases - 1) : BoundsLaidOut(p)

\* bounds were built for a collocation phase of two rows and two nodes
C28_Witness ==
    /\ "define_ocp_bounds" \in ran
    /\ \E p \in 0..(n_phases - 1) :
         /\ At(nlp, p).ode_solver.is_direct_collocation
         /\ At(nlp, p).ns = 2
         /\ NxPhaseMapped(p) = 2
         /\ Len(At(x_bounds, p).min) = 10

\* ---------------------------------------------------------------- C29
\* the DOFs of a phase whose symbol at node 0 the phase allocated itself
OwnDofs(lists, phase_idx, shape) ==
    {d \in 0..(shape - 1) : At(At(At(lists, 0), d), 0)[2] = phase_idx}

\* the phase takes some of its rows, not all, from another phase
AliasesSomeRows(use_from_phase, lists, phase_idx, shape) ==
    /\ use_from_phase # phase_idx
    /\ OwnDofs(lists, phase_idx, shape) # {}
    /\ OwnDofs(lists, phase_idx, shape) # 0..(shape - 1)

\* the named blocks are consecutive, disjoint row ranges of "all"
DisjointRowRanges(result, elements, phase_idx) ==
    LET dict == At(result, phase_idx)
    IN  /\ \A i \in 1..Len(elements) : elements[i].name \in DOMAIN dict
        /\ SumSeq([i \in 1..Len(elements) |-> Len(dict[elements[i].name])]) <= Len(dict["all"])
        /\ \A i \in 1..Len(elements) :
             LET before == SumSeq([j \in 1..(i - 1) |-> Len(dict[elements[j].name])])
             IN  dict[elements[i].name]
                    = SubSeq(dict["all"], before + 1, before + Len(dict[elements[i].name]))

\* the "all" matrix of the phase, at the phase's own position: one row per own DOF,
\* n_columns columns, the named blocks in disjoint row ranges
PartialAliasRead(result, elements, lists, phase_idx, n_columns) ==
    /\ Len(result) > phase_idx
    /\ "all" \in DOMAIN At(result, phase_idx)
    /\ Len(At(result, phase_idx)["all"])
          = Cardinality(OwnDofs(lists, phase_idx, Shape(elements)))
    /\ \A d \in 1..Len(At(result, phase_idx)["all"]) :
          Len(At(result, phase_idx)["all"][d]) = n_columns
    /\ DisjointRowRanges(result, elements, phase_idx)

\* C29: for a phase that aliases only some of its state rows, to_dictionaries on a
\* data vector of the length of `vector` does not fail and returns for that phase,
\* at its own position, an "all" matrix of ns+1 columns with one row per
\* independently allocated DOF, each named block in its own disjoint row range;
\* likewise for the controls
C29_PartialAliasDictionaries ==
    (pc = "declared" /\ data # << >>) =>
        \A p \in Phases :
            LET me == At(nlp, p)
            IN  /\ AliasesSomeRows(me.use_states_from_phase, me.X_scaled, p, Shape(me.states))
                     => /\ err = "none"
                        /\ PartialAliasRead(data_states, me.states, me.X_scaled, p, me.ns + 1)
                /\ AliasesSomeRows(me.use_controls_from_phase, me.U_scaled, p,
                                   Shape(me.controls))
                     => /\ err = "none"
                        /\ PartialAliasRead(data_controls, me.controls, me.U_scaled, p,
                                            ControlNodes(me))

\* ---------------------------------------------------------------- C30
\* DOF d of node k holds a symbol that the phase allocated itself
FreshDof(scaled_lists, phase_idx, k, d) == At(At(scaled_lists, k), d)[1][2] = phase_idx

\* at every node the unscaled symbol of the i-th fresh DOF, in DOF order, is its scaled
\* symbol times scaling entry i of the phase
FreshUseOwnEntries(scaled_lists, unscaled_lists, phase_idx) ==
    \A k \in 0..(Len(unscaled_lists) - 1) :
        \A d \in 0..(Len(At(unscaled_lists, k)) - 1) :
            FreshDof(scaled_lists, phase_idx, k, d) =>
                At(At(unscaled_lists, k), d)
                    = Scaled(At(At(scaled_lists, k), d), phase_idx,
                             Cardinality({e \in 0..(d - 1) :
                                            FreshDof(scaled_lists, phase_idx, k, e)}))

\* C30: in an aliasing phase, at every node, the unscaled symbol of each freshly
\* allocated state DOF is its scaled symbol times one scaling entry, the i-th fresh
\* DOF in DOF order using entry i, so that distinct fresh DOFs of a node use distinct
\* entries; the same at direct-collocation nodes and ordinary nodes, and for controls
C30_FreshScalingEntries ==
    pc = "declared" =>
        \A p \in Phases :
            LET me == At(nlp, p)
            IN  /\ me.use_states_from_phase # p
                     => FreshUseOwnEntries(me.X_scaled, me.X, p)
                /\ me.use_controls_from_phase # p
                     => FreshUseOwnEntries(me.U_scaled, me.U, p)

====
